---- MODULE Spec2Model ----
(***************************************************************************)
(* Model of the data normalisation and metric aggregation pipeline of      *)
(* utils/data_processor.py (class DataProcessor) together with the         *)
(* connector registry it reads (IntegrationManager.connectors).            *)
(*                                                                         *)
(* Spec           passes of process_multi_source_data over fixed connectors*)
(* SpecRefresh    passes with connectors reconfigured in between           *)
(* SpecNormalize  one call of _standardize_data_format on a raw table      *)
(* SpecTrends     passes over connectors that deliver day series           *)
(* SpecDashboard  passes, and the KPI cards and charts projected from      *)
(*                their snapshots                                          *)
(* SpecOnboarding the onboarding wizard of main.py                         *)
(*                                                                         *)
(* Units.  Every metric value of a table is an integer number of           *)
(* thousandths (100000 is 100.0), so that round(x, 2) and int(x) of the    *)
(* code are real conversions.  Ratios rounded to 2 decimals (roas, ctr,    *)
(* cpc, conversion rate) are integers in hundredths (333 is 3.33);         *)
(* percentages rounded to 1 decimal are integers in tenths (667 is 66.7).  *)
(* Arithmetic is exact; the tables of the model hold no value whose        *)
(* rounding is a tie that only the binary representation decides.          *)
(***************************************************************************)
EXTENDS Integers, Sequences, FiniteSets, TLC

VARIABLES connectors, processed_cache, returned, warnings, errors, fetched, clock,
          previous_cache, changes, frames, raw, result, source_id, outcome,
          view, kpis, charts, chart_cache, session_state, pressed, shown

\* the state of the pipeline: the connectors, the cache and what the last pass did;
\* previous_cache is the value processed_cache had when the last pass began
pipeline_vars ==
  <<connectors, processed_cache, returned, warnings, errors, fetched, previous_cache, changes>>

\* the state of one call of the normalizer: the DataFrame objects (frames), the
\* caller's table (raw), the table returned (result) and how the call ended
normalizer_vars == <<frames, raw, result, source_id, outcome>>

\* the projection layer: the last call of get_kpi_metrics or create_performance_charts
\* (view: which call, its argument, the snapshot it worked on), what the calls
\* returned (kpis, charts) and the processor's chart_cache
dashboard_vars == <<view, kpis, charts, chart_cache>>

\* the onboarding script: st.session_state, the button of the last interaction and
\* the page the last run of the script rendered
wizard_vars == <<session_state, pressed, shown>>

vars == <<pipeline_vars, normalizer_vars, dashboard_vars, wizard_vars, clock>>

(* ------------------------------ bounds -------------------------------- *)

MaxConnected == 3

MaxPasses == 2

\* reconfigurations of connectors between passes
MaxChanges == 1

\* columns and rows of a table handed to the normalizer
MaxCols == 3

MaxRows == 2

(* ----------------------------- strings -------------------------------- *)

\* str.lower() on the column names of the model: the names written with capitals
\* are listed here, every other name of the model is lower-case already
Lowered == [Cost |-> "cost", Date |-> "date"]

Lower(s) == IF s \in DOMAIN Lowered THEN Lowered[s] ELSE s

\* Python's `p in s` for strings
Contains(p, s) ==
  \E i \in 1..(Len(s) - Len(p) + 1) : SubSeq(s, i, i + Len(p) - 1) = p

(* ----------------------------- numbers -------------------------------- *)

\* n / d rounded to the nearest integer, ties to even (Python's round); d > 0
RoundDiv(n, d) ==
  LET q == n \div d
      r == n % d
  IN IF 2 * r < d THEN q
     ELSE IF 2 * r > d THEN q + 1
     ELSE IF q % 2 = 0 THEN q ELSE q + 1

\* round(x, 2) of a value in thousandths, as a value in thousandths
Round2(x) == 10 * RoundDiv(x, 10)

\* int(x) of a value in thousandths (truncation toward zero), in thousandths
IntOf(x) == IF x >= 0 THEN 1000 * (x \div 1000) ELSE 0 - 1000 * ((0 - x) \div 1000)

RECURSIVE SumSeq(_)
SumSeq(s) == IF Len(s) = 0 THEN 0 ELSE Head(s) + SumSeq(Tail(s))

(* ------------------------------ tables -------------------------------- *)
(* A DataFrame: n rows and an ordered list of columns.  dtype "num" is a   *)
(* numeric column, "date" a datetime column, "str" an object column of     *)
(* text that is neither a number nor a date, "ratio" the float result of a *)
(* row-wise division (its values are <<numerator, denominator>> pairs).    *)

Col(name, dtype, vals) == [name |-> name, dtype |-> dtype, vals |-> vals]

Frame(n, cols) == [n |-> n, cols |-> cols]

ColNames(t) == {t.cols[i].name : i \in 1..Len(t.cols)}

HasCol(t, name) == name \in ColNames(t)

ColIndex(t, name) == CHOOSE i \in 1..Len(t.cols) : t.cols[i].name = name

GetCol(t, name) == t.cols[ColIndex(t, name)]

\* DataFrame.empty
IsEmpty(t) == t.n = 0 \/ Len(t.cols) = 0

\* df[name] = column : replaces the column in place, or appends it
SetCol(t, name, dtype, vals) ==
  IF HasCol(t, name)
  THEN [t EXCEPT !.cols[ColIndex(t, name)] = Col(name, dtype, vals)]
  ELSE [t EXCEPT !.cols = Append(t.cols, Col(name, dtype, vals))]

\* Series.sum() of a numeric column
ColSum(t, name) == SumSeq(GetCol(t, name).vals)

\* a column on which arithmetic (sum into a number, mean, division) raises TypeError:
\* it holds a value that is not a number (a column without rows holds none)
NonNumeric(t, name) == t.n > 0 /\ GetCol(t, name).dtype \in {"str", "date"}

(* --------------------------- Schema Normalizer ------------------------- *)

Mapping(std, names) == [std |-> std, names |-> names]

LowerNames(names) == {Lower(names[i]) : i \in 1..Len(names)}

\* mutant of FirstMatchingColumn: the loops are nested the other way round, the
\* column of the earliest synonym that has one is taken
FirstMatchingSynonym(data, names) ==
  LET has == {j \in 1..Len(names) :
                \E i \in 1..Len(data.cols) : Lower(data.cols[i].name) = Lower(names[j])}
      first == CHOOSE j \in has : \A h \in has : j <= h
  IN IF has = {} THEN 0
     ELSE CHOOSE i \in 1..Len(data.cols) : Lower(data.cols[i].name) = Lower(names[first])

\* the first column of `data`, in column order, whose lower-cased name is one of the
\* accepted names; 0 when there is none
FirstMatchingColumn(data, names) ==
  LET hits == {i \in 1..Len(data.cols) : Lower(data.cols[i].name) \in LowerNames(names)}
  IN IF hits = {} THEN 0 ELSE CHOOSE i \in hits : \A j \in hits : i <= j

RECURSIVE ApplyMappingFrom(_, _, _, _)
ApplyMappingFrom(data, standardized, mapping, k) ==
  IF k > Len(mapping) THEN standardized
  ELSE LET m == mapping[k]
           i == FirstMatchingColumn(data, m.names)
           next == IF i # 0 /\ data.cols[i].name # m.std
                   THEN LET src == GetCol(standardized, data.cols[i].name)
                        IN SetCol(standardized, m.std, src.dtype, src.vals)
                   ELSE standardized
       IN ApplyMappingFrom(data, next, mapping, k + 1)

ApplyColumnMapping(data, mapping) == ApplyMappingFrom(data, data, mapping, 1)

AdsMapping ==
  << Mapping("spend", <<"spend", "cost", "gasto">>),
     Mapping("impressions", <<"impressions", "impresiones">>),
     Mapping("clicks", <<"clicks", "clics">>),
     Mapping("conversions", <<"conversions", "conversion", "purchases">>),
     Mapping("revenue", <<"revenue", "purchase_value", "conversion_value">>),
     Mapping("cpc", <<"cpc", "avg_cpc">>),
     Mapping("cpm", <<"cpm", "avg_cpm">>),
     Mapping("ctr", <<"ctr", "click_through_rate">>),
     Mapping("roas", <<"roas", "return_on_ad_spend">>) >>

EcommerceMapping ==
  << Mapping("revenue", <<"revenue", "sales", "ventas", "total_sales">>),
     Mapping("orders", <<"orders", "pedidos", "order_count">>),
     Mapping("units_sold", <<"units_sold", "quantity", "cantidad">>),
     Mapping("customers", <<"customers", "clientes", "new_customers">>),
     Mapping("aov", <<"aov", "average_order_value", "valor_promedio">>) >>

EmailMapping ==
  << Mapping("emails_sent", <<"emails_sent", "sent", "enviados">>),
     Mapping("opens", <<"opens", "emails_opened", "aperturas">>),
     Mapping("clicks", <<"clicks", "emails_clicked", "clics">>),
     Mapping("unsubscribes", <<"unsubscribes", "unsubs", "bajas">>),
     Mapping("bounces", <<"bounces", "rebotes">>),
     Mapping("revenue", <<"revenue", "email_revenue", "ingresos">>) >>

AnalyticsMapping ==
  << Mapping("sessions", <<"sessions", "sesiones">>),
     Mapping("users", <<"users", "usuarios", "unique_users">>),
     Mapping("pageviews", <<"pageviews", "page_views", "vistas">>),
     Mapping("bounce_rate", <<"bounce_rate", "tasa_rebote">>),
     Mapping("conversions", <<"conversions", "goals", "objetivos">>),
     Mapping("revenue", <<"revenue", "ecommerce_revenue", "ingresos">>) >>

CommonPatterns ==
  << Mapping("revenue", <<"revenue", "sales", "ventas", "ingresos", "total">>),
     Mapping("cost", <<"cost", "spend", "gasto", "inversion">>),
     Mapping("conversions", <<"conversions", "purchases", "orders", "pedidos">>),
     Mapping("impressions", <<"impressions", "views", "vistas">>),
     Mapping("clicks", <<"clicks", "clics">>) >>

\* a / b * k row by row; a zero denominator gives inf or NaN, kept as the pair
DivideRows(a, b, k) == [i \in 1..Len(a) |-> <<a[i] * k, b[i]>>]

StandardizeAdsData(data) == ApplyColumnMapping(data, AdsMapping)

\* mutant of NeedsAov: the test for an existing aov column is missing
NeedsAovIgnoringExisting(t) == HasCol(t, "revenue") /\ HasCol(t, "orders")

\* the aov backfill applies
NeedsAov(t) == ~HasCol(t, "aov") /\ HasCol(t, "revenue") /\ HasCol(t, "orders")

StandardizeEcommerceRaises(data) ==
  LET t == ApplyColumnMapping(data, EcommerceMapping)
  IN NeedsAov(t) /\ (NonNumeric(t, "revenue") \/ NonNumeric(t, "orders"))

StandardizeEcommerceData(data) ==
  LET t == ApplyColumnMapping(data, EcommerceMapping)
  IN IF NeedsAov(t)
     THEN SetCol(t, "aov", "ratio",
                 DivideRows(GetCol(t, "revenue").vals, GetCol(t, "orders").vals, 1))
     ELSE t

NeedsRate(t, rate, numer) ==
  ~HasCol(t, rate) /\ HasCol(t, numer) /\ HasCol(t, "emails_sent")

BackfillRate(t, rate, numer) ==
  IF NeedsRate(t, rate, numer)
  THEN SetCol(t, rate, "ratio",
              DivideRows(GetCol(t, numer).vals, GetCol(t, "emails_sent").vals, 100))
  ELSE t

StandardizeEmailRaises(data) ==
  LET t == ApplyColumnMapping(data, EmailMapping)
  IN \/ NeedsRate(t, "open_rate", "opens")
        /\ (NonNumeric(t, "opens") \/ NonNumeric(t, "emails_sent"))
     \/ NeedsRate(t, "click_rate", "clicks")
        /\ (NonNumeric(t, "clicks") \/ NonNumeric(t, "emails_sent"))

StandardizeEmailData(data) ==
  BackfillRate(BackfillRate(ApplyColumnMapping(data, EmailMapping),
                            "open_rate", "opens"),
               "click_rate", "clicks")

StandardizeAnalyticsData(data) == ApplyColumnMapping(data, AnalyticsMapping)

\* select_dtypes(include=[np.number]).columns
NumericColumns(t) ==
  {t.cols[i].name : i \in {j \in 1..Len(t.cols) : t.cols[j].dtype \in {"num", "ratio"}}}

\* the first column, in the frame's current column order, whose lower-cased name
\* contains one of the patterns and that is numeric; 0 when there is none
FirstPatternColumn(t, numeric, patterns) ==
  LET hits == {i \in 1..Len(t.cols) :
                 /\ \E k \in 1..Len(patterns) : Contains(patterns[k], Lower(t.cols[i].name))
                 /\ t.cols[i].name \in numeric}
  IN IF hits = {} THEN 0 ELSE CHOOSE i \in hits : \A j \in hits : i <= j

RECURSIVE CsvPatternsFrom(_, _, _)
CsvPatternsFrom(standardized, numeric, k) ==
  IF k > Len(CommonPatterns) THEN standardized
  ELSE LET m == CommonPatterns[k]
           i == FirstPatternColumn(standardized, numeric, m.names)
           next == IF i # 0
                   THEN SetCol(standardized, m.std, standardized.cols[i].dtype,
                               standardized.cols[i].vals)
                   ELSE standardized
       IN CsvPatternsFrom(next, numeric, k + 1)

StandardizeCsvData(data) == CsvPatternsFrom(data, NumericColumns(data), 1)

\* [col for col in columns if 'date' in col.lower() or 'fecha' in col.lower()]
DateColumns(t) ==
  {i \in 1..Len(t.cols) :
     Contains("date", Lower(t.cols[i].name)) \/ Contains("fecha", Lower(t.cols[i].name))}

FirstDateColumn(t) == CHOOSE i \in DateColumns(t) : \A j \in DateColumns(t) : i <= j

\* pd.date_range(end=now, periods=n, freq='D')
DateRange(now, n) == [i \in 1..n |-> now - n + i]

EnsureDateRaises(data) ==
  /\ data.n > 0
  /\ ~HasCol(data, "date")
  /\ DateColumns(data) # {}
  /\ data.cols[FirstDateColumn(data)].dtype = "str"

\* mutant of EnsureDate: a table without rows is left without a date column
EnsureDateUnlessEmpty(data, now) ==
  IF HasCol(data, "date") \/ data.n = 0 THEN data
  ELSE IF DateColumns(data) # {}
       THEN SetCol(data, "date", "date", data.cols[FirstDateColumn(data)].vals)
       ELSE SetCol(data, "date", "date", DateRange(now, data.n))

EnsureDate(data, now) ==
  IF HasCol(data, "date") THEN data
  ELSE IF DateColumns(data) # {}
       THEN SetCol(data, "date", "date", data.cols[FirstDateColumn(data)].vals)
       ELSE SetCol(data, "date", "date", DateRange(now, data.n))

AdsSources == {"meta", "google_ads"}

EcommerceSources == {"shopify", "woocommerce"}

EmailSources == {"klaviyo", "mailchimp", "mailerlite"}

MapBySource(t, source_type) ==
  IF source_type \in AdsSources THEN StandardizeAdsData(t)
  ELSE IF source_type \in EcommerceSources THEN StandardizeEcommerceData(t)
  ELSE IF source_type \in EmailSources THEN StandardizeEmailData(t)
  ELSE IF source_type = "ga4" THEN StandardizeAnalyticsData(t)
  ELSE IF source_type = "csv" THEN StandardizeCsvData(t)
  ELSE t

\* _standardize_data_format raises (to_datetime or a row-wise division fails)
StandardizeRaises(data, source_type) ==
  \/ EnsureDateRaises(data)
  \/ /\ ~EnsureDateRaises(data)
     /\ LET t == EnsureDate(data, 0)
        IN \/ source_type \in EcommerceSources /\ StandardizeEcommerceRaises(t)
           \/ source_type \in EmailSources /\ StandardizeEmailRaises(t)

(* DataFrames are objects: `heap` is the sequence of the objects that exist, *)
(* a reference is a position in it.  A call gets the reference of the        *)
(* caller's table and returns the heap it leaves and the reference of the    *)
(* table it returns.                                                         *)

\* mutant of DataCopy: no copy is made, the name is bound to the same object
DataCopyAlias(heap, ref) == [heap |-> heap, ref |-> ref]

\* data.copy(): a new object with the same columns and values
DataCopy(heap, ref) == [heap |-> Append(heap, heap[ref]), ref |-> Len(heap) + 1]

\* the source types with a mapping function of their own (each copies its argument)
MappedSources == AdsSources \cup EcommerceSources \cup EmailSources \cup {"ga4", "csv"}

\* standardized['source'] = source_type ; standardized['processed_at'] = datetime.now()
AddMetadata(t, src, now) ==
  SetCol(SetCol(t, "source", "str", [i \in 1..t.n |-> src]),
         "processed_at", "date", [i \in 1..t.n |-> now])

\* _standardize_data_format on the object `data`, when it does not raise
StandardizeCall(heap, data, src, now) ==
  LET own == DataCopy(heap, data)
      dated == [own.heap EXCEPT ![own.ref] = EnsureDate(@, now)]
      inner == IF src \in MappedSources THEN DataCopy(dated, own.ref)
               ELSE [heap |-> dated, ref |-> own.ref]
      mapped == [inner.heap EXCEPT ![inner.ref] = MapBySource(@, src)]
  IN [ heap |-> [mapped EXCEPT ![inner.ref] = AddMetadata(@, src, now)],
       ref |-> inner.ref ]

\* the table _standardize_data_format returns for the table `data`
StandardizeDataFormat(data, src, now) ==
  LET done == StandardizeCall(<<data>>, 1, src, now)
  IN done.heap[done.ref]

(* --------------------------- Metric Aggregator ------------------------- *)
(* processed_data is the dict the pass builds, in insertion order: a       *)
(* sequence of [source, data] entries.  A Python dict with optional keys   *)
(* is a function whose DOMAIN is the set of keys present.                  *)

BaseFields == <<"spend", "revenue", "conversions", "impressions", "clicks">>

BaseFieldSet == {BaseFields[i] : i \in 1..Len(BaseFields)}

Entry(source, data) == [source |-> source, data |-> data]

\* the entries the loops of the aggregator do not skip
NonEmptyEntries(pd) == SelectSeq(pd, LAMBDA e : ~IsEmpty(e.data))

\* mutant of TotalOf: a table without a spend column is left out of every sum
RECURSIVE TotalOfSpendTablesOnly(_, _)
TotalOfSpendTablesOnly(pd, field) ==
  IF Len(pd) = 0 THEN 0
  ELSE (IF ~IsEmpty(Head(pd).data) /\ HasCol(Head(pd).data, "spend")
           /\ HasCol(Head(pd).data, field)
        THEN ColSum(Head(pd).data, field) ELSE 0)
       + TotalOfSpendTablesOnly(Tail(pd), field)

\* sum of a base field over the tables that have the column (absent contributes 0)
RECURSIVE TotalOf(_, _)
TotalOf(pd, field) ==
  IF Len(pd) = 0 THEN 0
  ELSE (IF ~IsEmpty(Head(pd).data) /\ HasCol(Head(pd).data, field)
        THEN ColSum(Head(pd).data, field) ELSE 0)
       + TotalOf(Tail(pd), field)

\* mutant of Ratio2: a zero denominator is replaced by 1 instead of giving 0
Ratio2Clamped(n, d) == RoundDiv(100 * n, IF d > 0 THEN d ELSE 1)

\* round(n / d, 2) in hundredths when d > 0, else 0
Ratio2(n, d) == IF d > 0 THEN RoundDiv(100 * n, d) ELSE 0

\* round(n / d * 100, 2) in hundredths when d > 0, else 0
Pct2(n, d) == IF d > 0 THEN RoundDiv(10000 * n, d) ELSE 0

Overview(pd) ==
  LET total_spend == TotalOf(pd, "spend")
      total_revenue == TotalOf(pd, "revenue")
      total_conversions == TotalOf(pd, "conversions")
      total_impressions == TotalOf(pd, "impressions")
      total_clicks == TotalOf(pd, "clicks")
  IN [ total_spend |-> Round2(total_spend),
       total_revenue |-> Round2(total_revenue),
       total_conversions |-> IntOf(total_conversions),
       total_impressions |-> IntOf(total_impressions),
       total_clicks |-> IntOf(total_clicks),
       overall_roas |-> Ratio2(total_revenue, total_spend),
       overall_ctr |-> Pct2(total_clicks, total_impressions),
       overall_conversion_rate |-> Pct2(total_conversions, total_clicks) ]

EmptyDict == [k \in {} |-> 0]

\* {'total_<m>': sum, 'avg_<m>': round(mean, 2)} when the column exists
BasicMetrics(data, metric) ==
  IF HasCol(data, metric)
  THEN ("total_" \o metric) :> ColSum(data, metric)
       @@ ("avg_" \o metric) :> 10 * RoundDiv(ColSum(data, metric), 10 * data.n)
  ELSE EmptyDict

\* mutant of RevenueTrend: the rows are put in date order before they are split
RevenueTrendByDate(data) ==
  LET mid_point == data.n \div 2
      dates == GetCol(data, "date").vals
      rank(i) == 1 + Cardinality({j \in 1..data.n :
                                    dates[j] < dates[i] \/ (dates[j] = dates[i] /\ j < i)})
      vals == [k \in 1..data.n |->
                 GetCol(data, "revenue").vals[CHOOSE i \in 1..data.n : rank(i) = k]]
      s1 == SumSeq(SubSeq(vals, 1, mid_point))
      s2 == SumSeq(SubSeq(vals, mid_point + 1, data.n))
      n1 == mid_point
      n2 == data.n - mid_point
  IN IF s1 > 0 THEN RoundDiv(1000 * (s2 * n1 - s1 * n2), s1 * n2) ELSE 0

\* round((second - first) / first * 100, 1) of the half means, in tenths
RevenueTrend(data) ==
  LET mid_point == data.n \div 2
      vals == GetCol(data, "revenue").vals
      s1 == SumSeq(SubSeq(vals, 1, mid_point))
      s2 == SumSeq(SubSeq(vals, mid_point + 1, data.n))
      n1 == mid_point
      n2 == data.n - mid_point
  IN IF s1 > 0 THEN RoundDiv(1000 * (s2 * n1 - s1 * n2), s1 * n2) ELSE 0

\* mutant of CalculateChannelMetrics: roas divides spend by revenue
CalculateChannelMetricsInverted(data, source) ==
  "source" :> source
  @@ BasicMetrics(data, "spend") @@ BasicMetrics(data, "revenue")
  @@ BasicMetrics(data, "conversions") @@ BasicMetrics(data, "impressions")
  @@ BasicMetrics(data, "clicks")
  @@ (IF HasCol(data, "spend") /\ HasCol(data, "revenue")
      THEN "roas" :> Ratio2(ColSum(data, "spend"), ColSum(data, "revenue"))
      ELSE EmptyDict)
  @@ (IF HasCol(data, "clicks") /\ HasCol(data, "impressions")
      THEN "ctr" :> Pct2(ColSum(data, "clicks"), ColSum(data, "impressions"))
      ELSE EmptyDict)
  @@ (IF HasCol(data, "spend") /\ HasCol(data, "clicks")
      THEN "cpc" :> Ratio2(ColSum(data, "spend"), ColSum(data, "clicks"))
      ELSE EmptyDict)
  @@ (IF data.n > 7 /\ HasCol(data, "revenue")
      THEN "revenue_trend" :> RevenueTrend(data)
      ELSE EmptyDict)

CalculateChannelMetrics(data, source) ==
  "source" :> source
  @@ BasicMetrics(data, "spend") @@ BasicMetrics(data, "revenue")
  @@ BasicMetrics(data, "conversions") @@ BasicMetrics(data, "impressions")
  @@ BasicMetrics(data, "clicks")
  @@ (IF HasCol(data, "spend") /\ HasCol(data, "revenue")
      THEN "roas" :> Ratio2(ColSum(data, "revenue"), ColSum(data, "spend"))
      ELSE EmptyDict)
  @@ (IF HasCol(data, "clicks") /\ HasCol(data, "impressions")
      THEN "ctr" :> Pct2(ColSum(data, "clicks"), ColSum(data, "impressions"))
      ELSE EmptyDict)
  @@ (IF HasCol(data, "spend") /\ HasCol(data, "clicks")
      THEN "cpc" :> Ratio2(ColSum(data, "spend"), ColSum(data, "clicks"))
      ELSE EmptyDict)
  @@ (IF data.n > 7 /\ HasCol(data, "revenue")
      THEN "revenue_trend" :> RevenueTrend(data)
      ELSE EmptyDict)

\* dict.get(key, default)
Get(d, key, default) == IF key \in DOMAIN d THEN d[key] ELSE default

Channels(pd) ==
  LET live == NonEmptyEntries(pd)
  IN [src \in {live[i].source : i \in 1..Len(live)} |->
        LET i == CHOOSE j \in 1..Len(live) : live[j].source = src
        IN CalculateChannelMetrics(live[i].data, src)]

(* daily_totals: one row per distinct date, ascending, holding for every    *)
(* base field some source has the sum over all sources' rows of that day.   *)

RECURSIVE SortAscending(_)
SortAscending(S) ==
  IF S = {} THEN << >>
  ELSE LET m == CHOOSE x \in S : \A y \in S : x <= y
       IN <<m>> \o SortAscending(S \ {m})

\* the sources the daily grouping reads
DatedEntries(pd) ==
  SelectSeq(pd, LAMBDA e : ~IsEmpty(e.data) /\ HasCol(e.data, "date"))

\* sum of `field` over the rows of `data` dated d
DaySum(data, field, d) ==
  LET dates == GetCol(data, "date").vals
      vals == GetCol(data, field).vals
      rows == {i \in 1..data.n : dates[i] = d}
      RECURSIVE Add(_)
      Add(R) == IF R = {} THEN 0
                ELSE LET i == CHOOSE j \in R : TRUE IN vals[i] + Add(R \ {i})
  IN Add(rows)

\* mutant of DayTotal: the tables are not concatenated, the day's total is that of
\* the first source
DayTotalFirstSource(dated, field, d) ==
  IF Len(dated) = 0 THEN 0
  ELSE IF HasCol(Head(dated).data, field) THEN DaySum(Head(dated).data, field, d) ELSE 0

RECURSIVE DayTotal(_, _, _)
DayTotal(dated, field, d) ==
  IF Len(dated) = 0 THEN 0
  ELSE (IF HasCol(Head(dated).data, field) THEN DaySum(Head(dated).data, field, d) ELSE 0)
       + DayTotal(Tail(dated), field, d)

DailyTotals(pd) ==
  LET dated == DatedEntries(pd)
      days == SortAscending(UNION {{GetCol(dated[i].data, "date").vals[r] :
                                      r \in 1..dated[i].data.n} : i \in 1..Len(dated)})
      fields == {f \in BaseFieldSet : \E i \in 1..Len(dated) : HasCol(dated[i].data, f)}
  IN [ date |-> days,
       cols |-> [f \in fields |-> [k \in 1..Len(days) |-> DayTotal(dated, f, days[k])]] ]

\* mutant of WeekOverWeek: the last 7 days are compared with all the earlier days,
\* values[:-7], however many there are
WeekOverWeekAllEarlier(values) ==
  LET n == Len(values)
      recent == SumSeq(SubSeq(values, n - 6, n))
      prev == SubSeq(values, 1, n - 7)
      k == Len(prev)
      previous == SumSeq(prev)
  IN [ percentage |-> RoundDiv(1000 * (recent * k - previous * 7), previous * 7),
       direction |-> IF recent * k > previous * 7 THEN "up" ELSE "down",
       recent_avg |-> 10 * RoundDiv(recent, 70),
       previous_avg |-> 10 * RoundDiv(previous, 10 * k) ]

\* the week-over-week entry of one metric, from its daily values (more than 7 of them)
WeekOverWeek(values) ==
  LET n == Len(values)
      recent == SumSeq(SubSeq(values, n - 6, n))
      prev == IF n >= 14 THEN SubSeq(values, n - 13, n - 7) ELSE SubSeq(values, 1, n - 7)
      k == Len(prev)
      previous == SumSeq(prev)
  IN [ percentage |-> RoundDiv(1000 * (recent * k - previous * 7), previous * 7),
       direction |-> IF recent * k > previous * 7 THEN "up" ELSE "down",
       recent_avg |-> 10 * RoundDiv(recent, 70),
       previous_avg |-> 10 * RoundDiv(previous, 10 * k) ]

\* values[-14:-7] or values[:-7] has a positive mean
PreviousPositive(values) ==
  LET n == Len(values)
  IN SumSeq(IF n >= 14 THEN SubSeq(values, n - 13, n - 7) ELSE SubSeq(values, 1, n - 7)) > 0

TrendOf(daily, metric) ==
  IF /\ Len(daily.date) > 1
     /\ metric \in DOMAIN daily.cols
     /\ Len(daily.date) > 7
     /\ PreviousPositive(daily.cols[metric])
  THEN (metric \o "_trend") :> WeekOverWeek(daily.cols[metric])
  ELSE EmptyDict

CalculateTrends(pd) ==
  IF Len(DatedEntries(pd)) = 0 THEN EmptyDict
  ELSE LET daily == DailyTotals(pd)
       IN TrendOf(daily, "spend") @@ TrendOf(daily, "revenue")
          @@ TrendOf(daily, "conversions") @@ "daily_data" :> daily

\* data.groupby('date').agg({}) : pandas raises ValueError (No objects to concatenate)
\* when the dict of aggregations is empty, i.e. the table has no base field at all
AggEmptyRaises(data) == \A f \in BaseFieldSet : ~HasCol(data, f)

CalculateTrendsRaises(pd) ==
  \E i \in 1..Len(DatedEntries(pd)) : AggEmptyRaises(DatedEntries(pd)[i].data)

(* channel_performance: the entries are objects; the ranking list and the    *)
(* best/worst references hold references (positive numbers) into `objects`.  *)

None == 0

RankingEntry(data, source) ==
  LET channel_metrics == CalculateChannelMetrics(data, source)
  IN "channel" :> source
     @@ "roas" :> Get(channel_metrics, "roas", 0)
     @@ "spend" :> Get(channel_metrics, "total_spend", 0)
     @@ "revenue" :> Get(channel_metrics, "total_revenue", 0)
     @@ "ctr" :> Get(channel_metrics, "ctr", 0)
     @@ "cpc" :> Get(channel_metrics, "cpc", 0)

\* mutant of SortByRoas: reverse=True is missing, the list is sorted ascending
RECURSIVE SortByRoasAscending(_, _)
SortByRoasAscending(objects, k) ==
  IF k = 0 THEN << >>
  ELSE LET before == SortByRoasAscending(objects, k - 1)
           ahead == {i \in 1..Len(before) : objects[before[i]]["roas"] <= objects[k]["roas"]}
           pos == Cardinality(ahead)
       IN SubSeq(before, 1, pos) \o <<k>> \o SubSeq(before, pos + 1, Len(before))

\* list.sort(key=roas, reverse=True): stable, equal keys keep their order
RECURSIVE SortByRoas(_, _)
SortByRoas(objects, k) ==
  IF k = 0 THEN << >>
  ELSE LET before == SortByRoas(objects, k - 1)
           ahead == {i \in 1..Len(before) : objects[before[i]]["roas"] >= objects[k]["roas"]}
           pos == Cardinality(ahead)
       IN SubSeq(before, 1, pos) \o <<k>> \o SubSeq(before, pos + 1, Len(before))

\* sum(ch['spend'] for ch in channel_performance)
RECURSIVE SpendOf(_, _)
SpendOf(objects, ranking) ==
  IF Len(ranking) = 0 THEN 0
  ELSE objects[Head(ranking)]["spend"] + SpendOf(objects, Tail(ranking))

\* mutant of SpendPercentage: the * 100 is missing, the share is a fraction
SpendFraction(spend, total_spend) == RoundDiv(10 * spend, total_spend)

\* channel['spend_percentage'] = round(spend / total_spend * 100, 1), in tenths
SpendPercentage(spend, total_spend) == RoundDiv(1000 * spend, total_spend)

\* the loop that annotates the entries of the list, when the total is positive
AnnotateSpend(objects, ranking) ==
  LET total_spend == SpendOf(objects, ranking)
      listed == {ranking[i] : i \in 1..Len(ranking)}
  IN IF total_spend > 0
     THEN [r \in DOMAIN objects |->
             IF r \in listed
             THEN objects[r] @@ "spend_percentage"
                                  :> SpendPercentage(objects[r]["spend"], total_spend)
             ELSE objects[r]]
     ELSE objects

\* mutant of BestWorst: best and worst are copies (dict(entry)) of the entries, new
\* objects that the later annotation of the list does not reach
BestWorstCopies(objects, ranking) ==
  [ objects |-> objects \o <<objects[ranking[1]], objects[ranking[Len(ranking)]]>>,
    best_channel |-> Len(objects) + 1,
    worst_channel |-> IF Len(ranking) > 1 THEN Len(objects) + 2 ELSE None ]

\* performance['best_channel'] = channel_performance[0], ['worst_channel'] = [-1] or None:
\* references to the entries of the list, no new object
BestWorst(objects, ranking) ==
  [ objects |-> objects,
    best_channel |-> ranking[1],
    worst_channel |-> IF Len(ranking) > 1 THEN ranking[Len(ranking)] ELSE None ]

\* mutant of CalculatePerformanceMetrics: the three keys are set outside the
\* `if channel_performance:` block, so they exist for an empty list too
CalculatePerformanceMetricsKeysAlways(pd) ==
  LET live == NonEmptyEntries(pd)
      created == [r \in 1..Len(live) |-> RankingEntry(live[r].data, live[r].source)]
      ranking == SortByRoas(created, Len(created))
  IN [ objects |-> AnnotateSpend(created, ranking),
       performance |-> "channel_ranking" :> ranking
                       @@ "best_channel" :> (IF Len(ranking) > 0 THEN ranking[1] ELSE None)
                       @@ "worst_channel" :> (IF Len(ranking) > 1 THEN ranking[Len(ranking)]
                                              ELSE None) ]

CalculatePerformanceMetrics(pd) ==
  LET live == NonEmptyEntries(pd)
      created == [r \in 1..Len(live) |-> RankingEntry(live[r].data, live[r].source)]
  IN IF Len(live) = 0
     THEN [objects |-> << >>, performance |-> EmptyDict]
     ELSE LET ranking == SortByRoas(created, Len(created))
              refs == BestWorst(created, ranking)
          IN [ objects |-> AnnotateSpend(refs.objects, ranking),
               performance |-> "channel_ranking" :> ranking
                               @@ "best_channel" :> refs.best_channel
                               @@ "worst_channel" :> refs.worst_channel ]

\* an arithmetic step of the aggregation raises on this table
SummationRaises(data) == \E f \in BaseFieldSet : HasCol(data, f) /\ NonNumeric(data, f)

CombineMetricsRaises(pd) ==
  \/ \E i \in 1..Len(NonEmptyEntries(pd)) : SummationRaises(NonEmptyEntries(pd)[i].data)
  \/ CalculateTrendsRaises(pd)

CombineMetrics(pd) ==
  LET perf == CalculatePerformanceMetrics(pd)
  IN [ overview |-> Overview(pd),
       channels |-> Channels(pd),
       trends |-> CalculateTrends(pd),
       performance |-> perf.performance,
       objects |-> perf.objects ]

(* ------------------------------ connectors ----------------------------- *)
(* IntegrationManager.connectors in insertion order.  A connector is "off" *)
(* (is_connected() false) or connected, and then the outcome of its        *)
(* fetch_data: "raise", "none" (returns None) or the name of the table it  *)
(* returns.  The connectors that are ever connected are Configurable; the  *)
(* others stay off.                                                        *)

ConnectorOrder ==
  <<"ga4", "meta", "shopify", "woocommerce", "klaviyo", "mailerlite", "mailchimp", "csv">>

ConnectorNames == {ConnectorOrder[i] : i \in 1..Len(ConnectorOrder)}

Configurable == {"meta", "shopify", "klaviyo", "csv"}

TableNames == {"A", "B", "C", "S", "R", "N", "X", "D", "Z", "E"}

\* tables with a history of days: a row per day
TrendTables == {"T14", "T8", "V8", "Q8", "U8", "T7"}

\* n times the value v
Repeat(v, n) == [i \in 1..n |-> v]

\* n consecutive days from `first` on
Days(first, n) == [i \in 1..n |-> first + i - 1]

Outcomes == {"raise", "none"} \cup TableNames

\* the table a connector returns
RawTable(id) ==
  CASE id = "A" -> Frame(1, << Col("date", "date", <<1>>),
                               Col("spend", "num", <<100000>>),
                               Col("revenue", "num", <<400000>>) >>)
    [] id = "B" -> Frame(1, << Col("date", "date", <<2>>),
                               Col("spend", "num", <<50000>>),
                               Col("revenue", "num", <<50000>>) >>)
    [] id = "C" -> Frame(2, << Col("Date", "date", <<1, 1>>),
                               Col("Cost", "num", <<30004, 20002>>),
                               Col("sales", "num", <<10000, 20000>>),
                               Col("impressions", "num", <<100000, 50000>>),
                               Col("clicks", "num", <<25500, 4700>>),
                               Col("conversions", "num", <<1200, 1500>>) >>)
    [] id = "S" -> Frame(1, << Col("spend", "num", <<100004>>),
                               Col("clicks", "num", <<10000>>) >>)
    [] id = "R" -> Frame(2, << Col("date", "date", <<1, 2>>),
                               Col("revenue", "num", <<10000, 20000>>),
                               Col("conversions", "num", <<1000, 1000>>) >>)
    [] id = "D" -> Frame(1, << Col("fecha", "str", <<"ayer">>),
                               Col("spend", "num", <<20000>>) >>)
    [] id = "N" -> Frame(1, << Col("date", "date", <<1>>),
                               Col("sessions", "num", <<5000>>) >>)
    [] id = "X" -> Frame(1, << Col("date", "date", <<1>>),
                               Col("spend", "num", <<10000>>),
                               Col("revenue", "str", <<"n/a">>) >>)
    [] id = "Z" -> Frame(1, << Col("date", "date", <<2>>),
                               Col("spend", "num", <<0>>),
                               Col("revenue", "num", <<0>>),
                               Col("conversions", "num", <<0>>),
                               Col("impressions", "num", <<0>>),
                               Col("clicks", "num", <<0>>) >>)
    [] id = "T14" -> Frame(14, << Col("date", "date", Days(1, 14)),
                                  Col("spend", "num", Repeat(3000, 7) \o Repeat(4000, 7)),
                                  Col("revenue", "num", Repeat(10000, 7) \o Repeat(20000, 7)),
                                  Col("conversions", "num", Repeat(0, 7) \o Repeat(1000, 7)) >>)
    [] id = "T8" -> Frame(8, << Col("date", "date", Days(1, 8)),
                                Col("spend", "num", Repeat(2000, 8)),
                                Col("revenue", "num", <<10000>> \o Repeat(15000, 7)) >>)
    [] id = "V8" -> Frame(8, << Col("date", "date", [i \in 1..8 |-> 9 - i]),
                                Col("spend", "num", Repeat(1000, 8)),
                                Col("revenue", "num", Repeat(10000, 4) \o Repeat(30000, 4)) >>)
    [] id = "Q8" -> Frame(8, << Col("date", "date", Days(1, 8)),
                                Col("revenue", "num", Repeat(0, 4) \o Repeat(5000, 4)),
                                Col("conversions", "num", Repeat(1000, 8)) >>)
    [] id = "U8" -> Frame(8, << Col("date", "date", Days(9, 8)),
                                Col("spend", "num", Repeat(6000, 8)),
                                Col("revenue", "num", Repeat(12000, 8)),
                                Col("conversions", "num", Repeat(2000, 8)) >>)
    [] id = "T7" -> Frame(7, << Col("date", "date", Days(1, 7)),
                                Col("spend", "num", Repeat(1000, 7)),
                                Col("revenue", "num", Repeat(2000, 7)) >>)
    [] OTHER -> Frame(0, << Col("date", "date", << >>),
                            Col("spend", "num", << >>) >>)

\* mutant of IsConnected: the test is missing, every connector is asked for data
IsConnectedAlways(conns, c) == c \in DOMAIN conns

IsConnected(conns, c) == conns[c] # "off"

Times == 1..MaxPasses

\* what _standardize_data_format does with each table of each connector at each time:
\* "raises", or the standardized copy
Standardized ==
  [c \in Configurable |-> [id \in TableNames \cup TrendTables |-> [now \in Times |->
     IF StandardizeRaises(RawTable(id), c)
     THEN [raises |-> TRUE]
     ELSE [raises |-> FALSE, data |-> StandardizeDataFormat(RawTable(id), c, now)]]]]

\* mutant of FetchFrom: the handler of a failing connector leaves the loop (break)
RECURSIVE FetchFromStopsAtError(_, _, _, _)
FetchFromStopsAtError(conns, now, k, acc) ==
  IF k > Len(ConnectorOrder) THEN acc
  ELSE LET c == ConnectorOrder[k]
       IN IF conns[c] = "off" THEN FetchFromStopsAtError(conns, now, k + 1, acc)
          ELSE LET called == [acc EXCEPT !.called = @ \cup {c}]
               IN IF conns[c] = "raise"
                  THEN [called EXCEPT !.warned = @ \cup {c}]
                  ELSE IF conns[c] = "none" \/ IsEmpty(RawTable(conns[c]))
                  THEN FetchFromStopsAtError(conns, now, k + 1, called)
                  ELSE IF Standardized[c][conns[c]][now].raises
                  THEN [called EXCEPT !.warned = @ \cup {c}]
                  ELSE FetchFromStopsAtError(conns, now, k + 1,
                         [called EXCEPT !.processed =
                            Append(@, Entry(c, Standardized[c][conns[c]][now].data))])

\* mutant of FetchFrom: a connector that answers None or an empty table is reported
\* with st.warning like one that raises
RECURSIVE FetchFromWarnsOnEmpty(_, _, _, _)
FetchFromWarnsOnEmpty(conns, now, k, acc) ==
  IF k > Len(ConnectorOrder) THEN acc
  ELSE LET c == ConnectorOrder[k]
       IN IF ~IsConnected(conns, c) THEN FetchFromWarnsOnEmpty(conns, now, k + 1, acc)
          ELSE LET called == [acc EXCEPT !.called = @ \cup {c}]
               IN IF conns[c] = "raise"
                  THEN FetchFromWarnsOnEmpty(conns, now, k + 1,
                                             [called EXCEPT !.warned = @ \cup {c}])
                  ELSE IF conns[c] = "none" \/ IsEmpty(RawTable(conns[c]))
                  THEN FetchFromWarnsOnEmpty(conns, now, k + 1,
                                             [called EXCEPT !.warned = @ \cup {c}])
                  ELSE IF Standardized[c][conns[c]][now].raises
                  THEN FetchFromWarnsOnEmpty(conns, now, k + 1,
                                             [called EXCEPT !.warned = @ \cup {c}])
                  ELSE FetchFromWarnsOnEmpty(conns, now, k + 1,
                         [called EXCEPT !.processed =
                            Append(@, Entry(c, Standardized[c][conns[c]][now].data))])

(* the loop of process_multi_source_data from position k on: processed is    *)
(* processed_data, warned the connectors st.warning named, called the        *)
(* connectors whose fetch_data ran                                            *)
RECURSIVE FetchFrom(_, _, _, _)
FetchFrom(conns, now, k, acc) ==
  IF k > Len(ConnectorOrder) THEN acc
  ELSE LET c == ConnectorOrder[k]
       IN IF ~IsConnected(conns, c) THEN FetchFrom(conns, now, k + 1, acc)
          ELSE LET called == [acc EXCEPT !.called = @ \cup {c}]
               IN IF conns[c] = "raise"
                  THEN FetchFrom(conns, now, k + 1, [called EXCEPT !.warned = @ \cup {c}])
                  ELSE IF conns[c] = "none" \/ IsEmpty(RawTable(conns[c]))
                  THEN FetchFrom(conns, now, k + 1, called)
                  ELSE IF Standardized[c][conns[c]][now].raises
                  THEN FetchFrom(conns, now, k + 1, [called EXCEPT !.warned = @ \cup {c}])
                  ELSE FetchFrom(conns, now, k + 1,
                         [called EXCEPT !.processed =
                            Append(@, Entry(c, Standardized[c][conns[c]][now].data))])

FetchAll(conns, now) ==
  FetchFrom(conns, now, 1, [processed |-> << >>, warned |-> {}, called |-> {}])

\* the dict process_multi_source_data caches and returns
Snapshot(pd, now) ==
  [raw_data |-> pd, combined_metrics |-> CombineMetrics(pd), last_updated |-> now]

\* _generate_demo_data: random tables put through the same pipeline; their content
\* is abstracted to the draw that produced them
DemoSeeds == {"draw1", "draw2"}

GenerateDemoData(now, seed) ==
  [raw_data |-> seed, combined_metrics |-> seed, last_updated |-> now, is_demo |-> TRUE]

IsDemo(snap) == "is_demo" \in DOMAIN snap

(* ------------------------------- state --------------------------------- *)

NoCache == [k \in {} |-> 0]

Connected(conns) == {c \in ConnectorNames : conns[c] # "off"}

\* a new DataProcessor: nothing cached, no pass made
NewProcessor ==
  /\ processed_cache = NoCache
  /\ previous_cache = NoCache
  /\ returned = NoCache
  /\ warnings = {}
  /\ errors = FALSE
  /\ fetched = {}
  /\ changes = 0
  /\ chart_cache = EmptyDict

\* neither KPI cards nor charts have been asked for
NoView ==
  /\ view = EmptyDict
  /\ kpis = EmptyDict
  /\ charts = EmptyDict

\* the onboarding script is not running
NoSession ==
  /\ session_state = EmptyDict
  /\ pressed = ""
  /\ shown = ""

\* no call of the normalizer on a table of its own is under way
NormalizerIdle ==
  /\ frames = << >>
  /\ raw = None
  /\ result = None
  /\ source_id = ""
  /\ outcome = "idle"

Init ==
  /\ \E chosen \in [Configurable -> {"off"} \cup Outcomes] :
       /\ Cardinality({c \in Configurable : chosen[c] # "off"}) <= MaxConnected
       /\ connectors = [c \in ConnectorNames |->
                          IF c \in Configurable THEN chosen[c] ELSE "off"]
  /\ NewProcessor
  /\ NormalizerIdle
  /\ NoView
  /\ NoSession
  /\ clock = 0

\* mutant of ProcessMultiSourceData: the pass updates the cached raw_data in place
\* (processed_data starts as the cached dict) instead of building a new one
ProcessMultiSourceDataUpdating ==
  /\ clock < MaxPasses
  /\ LET now == clock + 1
         got == FetchAll(connectors, now)
         again == {got.processed[i].source : i \in 1..Len(got.processed)}
         kept == IF "raw_data" \in DOMAIN processed_cache
                 THEN SelectSeq(processed_cache.raw_data, LAMBDA e : e.source \notin again)
                 ELSE << >>
         merged == kept \o got.processed
     IN /\ clock' = now
        /\ previous_cache' = processed_cache
        /\ warnings' = got.warned
        /\ fetched' = got.called
        /\ IF CombineMetricsRaises(merged)
           THEN /\ errors' = TRUE
                /\ \E seed \in DemoSeeds : returned' = GenerateDemoData(now, seed)
                /\ UNCHANGED processed_cache
           ELSE /\ errors' = FALSE
                /\ processed_cache' = Snapshot(merged, now)
                /\ returned' = processed_cache'
  /\ UNCHANGED <<connectors, changes>>
  /\ UNCHANGED <<normalizer_vars, dashboard_vars, wizard_vars>>

\* mutant of ProcessMultiSourceData: the demo data returned after a failure is cached
ProcessMultiSourceDataCachingDemo ==
  /\ clock < MaxPasses
  /\ LET now == clock + 1
         got == FetchAll(connectors, now)
     IN /\ clock' = now
        /\ previous_cache' = processed_cache
        /\ warnings' = got.warned
        /\ fetched' = got.called
        /\ IF CombineMetricsRaises(got.processed)
           THEN /\ errors' = TRUE
                /\ \E seed \in DemoSeeds : returned' = GenerateDemoData(now, seed)
                /\ processed_cache' = returned'
           ELSE /\ errors' = FALSE
                /\ processed_cache' = Snapshot(got.processed, now)
                /\ returned' = processed_cache'
  /\ UNCHANGED <<connectors, changes>>
  /\ UNCHANGED <<normalizer_vars, dashboard_vars, wizard_vars>>

\* DataProcessor.process_multi_source_data(integration_manager), one whole call
ProcessMultiSourceData ==
  /\ clock < MaxPasses
  /\ LET now == clock + 1
         got == FetchAll(connectors, now)
     IN /\ clock' = now
        /\ previous_cache' = processed_cache
        /\ warnings' = got.warned
        /\ fetched' = got.called
        /\ IF CombineMetricsRaises(got.processed)
           THEN /\ errors' = TRUE
                /\ \E seed \in DemoSeeds : returned' = GenerateDemoData(now, seed)
                /\ UNCHANGED processed_cache
           ELSE /\ errors' = FALSE
                /\ processed_cache' = Snapshot(got.processed, now)
                /\ returned' = processed_cache'
  /\ UNCHANGED <<connectors, changes>>
  /\ UNCHANGED <<normalizer_vars, dashboard_vars, wizard_vars>>

Next == ProcessMultiSourceData

Spec == Init /\ [][Next]_vars

(* ---------------------- the pipeline, reconfigured --------------------- *)
(* Between two passes the user configures or disconnects a connector, or    *)
(* the platform behind it starts to answer differently.                     *)

RefreshConnectors == {"meta", "shopify", "csv"}

RefreshOutcomes == {"off", "raise", "A", "R", "X"}

InitRefresh ==
  /\ \E chosen \in [RefreshConnectors -> RefreshOutcomes] :
       connectors = [c \in ConnectorNames |->
                       IF c \in RefreshConnectors THEN chosen[c] ELSE "off"]
  /\ NewProcessor
  /\ NormalizerIdle
  /\ NoView
  /\ NoSession
  /\ clock = 0

\* connector.configure() / a disconnection / a change of what fetch_data answers
Reconfigure ==
  /\ changes < MaxChanges
  /\ \E c \in RefreshConnectors, o \in RefreshOutcomes :
       /\ o # connectors[c]
       /\ connectors' = [connectors EXCEPT ![c] = o]
  /\ changes' = changes + 1
  /\ UNCHANGED <<processed_cache, previous_cache, returned, warnings, errors, fetched, clock>>
  /\ UNCHANGED <<normalizer_vars, dashboard_vars, wizard_vars>>

NextRefresh == ProcessMultiSourceData \/ Reconfigure

SpecRefresh == InitRefresh /\ [][NextRefresh]_vars

(* ------------------------ the normalizer, called ----------------------- *)
(* One call of _standardize_data_format on a table the caller holds.  The   *)
(* table is made of at most MaxCols columns of Pool, in the order of Pool   *)
(* or in the reverse order, with 0..MaxRows rows.                           *)

Pool ==
  << [name |-> "date", dtype |-> "date", first |-> 101, step |-> 1],
     [name |-> "order_date", dtype |-> "date", first |-> 111, step |-> 1],
     [name |-> "fecha", dtype |-> "str", first |-> "ayer", step |-> 0],
     [name |-> "time", dtype |-> "date", first |-> 121, step |-> 1],
     [name |-> "spend", dtype |-> "num", first |-> 10000, step |-> 1000],
     [name |-> "Cost", dtype |-> "num", first |-> 30000, step |-> 1000],
     [name |-> "gasto", dtype |-> "num", first |-> 40000, step |-> 1000],
     [name |-> "revenue", dtype |-> "num", first |-> 50000, step |-> 1000],
     [name |-> "sales", dtype |-> "num", first |-> 70000, step |-> 1000],
     [name |-> "ingresos", dtype |-> "num", first |-> 90000, step |-> 1000],
     [name |-> "order_total", dtype |-> "num", first |-> 110000, step |-> 1000],
     [name |-> "orders", dtype |-> "num", first |-> 0, step |-> 2000],
     [name |-> "aov", dtype |-> "num", first |-> 7000, step |-> 500],
     [name |-> "average_order_value", dtype |-> "num", first |-> 9000, step |-> 500],
     [name |-> "source", dtype |-> "str", first |-> "google", step |-> 0] >>

\* the column of the pool at position p, with n rows
PoolColumn(p, n) ==
  Col(Pool[p].name, Pool[p].dtype,
      [i \in 1..n |-> IF Pool[p].dtype = "str" THEN Pool[p].first
                      ELSE Pool[p].first + Pool[p].step * (i - 1)])

\* the table with the columns S of the pool, in pool order or reversed
PoolFrame(S, reversed, n) ==
  LET up == SortAscending(S)
      order == IF reversed THEN [k \in 1..Len(up) |-> up[Len(up) + 1 - k]] ELSE up
  IN Frame(n, [k \in 1..Len(order) |-> PoolColumn(order[k], n)])

SourceTypes == {"meta", "shopify", "klaviyo", "ga4", "csv", "hubspot"}

InitNormalize ==
  /\ \E S \in SUBSET (1..Len(Pool)), reversed \in BOOLEAN, n \in 0..MaxRows,
        src \in SourceTypes :
       /\ Cardinality(S) <= MaxCols
       /\ reversed => Cardinality(S) >= 2
       /\ frames = <<PoolFrame(S, reversed, n)>>
       /\ source_id = src
  /\ raw = 1
  /\ result = None
  /\ outcome = "idle"
  /\ connectors = [c \in ConnectorNames |-> "off"]
  /\ NewProcessor
  /\ NoView
  /\ NoSession
  /\ clock = 0

\* DataProcessor._standardize_data_format(raw, source_id), one whole call
StandardizeDataFormatCall ==
  /\ outcome = "idle"
  /\ clock' = clock + 1
  /\ IF StandardizeRaises(frames[raw], source_id)
     THEN /\ frames' = DataCopy(frames, raw).heap
          /\ result' = None
          /\ outcome' = "raised"
     ELSE LET done == StandardizeCall(frames, raw, source_id, clock + 1)
          IN /\ frames' = done.heap
             /\ result' = done.ref
             /\ outcome' = "returned"
  /\ UNCHANGED <<raw, source_id>>
  /\ UNCHANGED <<pipeline_vars, dashboard_vars, wizard_vars>>

NextNormalize == StandardizeDataFormatCall

SpecNormalize == InitNormalize /\ [][NextNormalize]_vars

(* -------------------------- Chart/KPI Projection ----------------------- *)
(* get_kpi_metrics and create_performance_charts read a snapshot: the one   *)
(* given, or processed_cache, or new demo data when that has no             *)
(* combined_metrics.  The content of a demo snapshot is abstracted to its   *)
(* draw, and so is what is projected from it.                               *)

\* trends.get(key, {}).get('percentage', 0)
TrendPercentage(trends, key) ==
  IF key \in DOMAIN trends THEN trends[key].percentage ELSE 0

\* mutant of CalculateRoasTrend: the test `spend_pct != 0` is missing
CalculateRoasTrendFlatSpend(trends) ==
  IF "revenue_trend" \in DOMAIN trends /\ "spend_trend" \in DOMAIN trends
  THEN trends["revenue_trend"].percentage - trends["spend_trend"].percentage
  ELSE 0

\* _calculate_roas_trend: round(revenue_pct - spend_pct, 1), in tenths
CalculateRoasTrend(trends) ==
  IF "revenue_trend" \in DOMAIN trends /\ "spend_trend" \in DOMAIN trends
  THEN IF trends["spend_trend"].percentage # 0
       THEN trends["revenue_trend"].percentage - trends["spend_trend"].percentage
       ELSE 0
  ELSE 0

CardNames ==
  {"total_revenue", "total_spend", "overall_roas", "total_conversions", "overall_ctr",
   "overall_conversion_rate"}

CardFormat ==
  [ total_revenue |-> "currency", total_spend |-> "currency",
    overall_roas |-> "multiplier", total_conversions |-> "number",
    overall_ctr |-> "percentage", overall_conversion_rate |-> "percentage" ]

CardLabel ==
  [ total_revenue |-> "Revenue Total", total_spend |-> "Gasto Publicitario",
    overall_roas |-> "ROAS Promedio", total_conversions |-> "Conversiones Totales",
    overall_ctr |-> "CTR Promedio", overall_conversion_rate |-> "Tasa de Conversion" ]

CardTrend(trends, k) ==
  CASE k = "total_revenue" -> TrendPercentage(trends, "revenue_trend")
    [] k = "total_spend" -> TrendPercentage(trends, "spend_trend")
    [] k = "overall_roas" -> CalculateRoasTrend(trends)
    [] k = "total_conversions" -> TrendPercentage(trends, "conversions_trend")
    [] OTHER -> 0

Card(value, format, trend, label) ==
  [value |-> value, format |-> format, trend |-> trend, label |-> label]

\* the dict of cards built from combined_metrics
KpiCards(cm) ==
  [k \in CardNames |->
     Card(Get(cm.overview, k, 0), CardFormat[k], CardTrend(cm.trends, k), CardLabel[k])]

\* the cards of a demo snapshot: the numbers are those of the draw
DemoCards(seed) ==
  [k \in CardNames |-> Card(<<seed, k>>, CardFormat[k], <<seed, k, "trend">>, CardLabel[k])]

KpisOf(processed_data) ==
  IF IsDemo(processed_data) THEN DemoCards(processed_data.combined_metrics)
  ELSE KpiCards(processed_data.combined_metrics)

\* `not processed_data or 'combined_metrics' not in processed_data`
NeedsDemo(processed_data) ==
  processed_data = NoCache \/ "combined_metrics" \notin DOMAIN processed_data

\* str.title() on the connector names
Title ==
  [ ga4 |-> "Ga4", meta |-> "Meta", shopify |-> "Shopify", woocommerce |-> "Woocommerce",
    klaviyo |-> "Klaviyo", mailerlite |-> "Mailerlite", mailchimp |-> "Mailchimp",
    csv |-> "Csv" ]

\* a chart function returns None
NoFigure == EmptyDict

\* performance.get('channel_ranking', []), the entries in list order
ChannelRanking(cm) ==
  IF "channel_ranking" \in DOMAIN cm.performance
  THEN [i \in 1..Len(cm.performance["channel_ranking"]) |->
          cm.objects[cm.performance["channel_ranking"][i]]]
  ELSE << >>

\* Series.rolling(window=7).mean(): <<sum, 7>> of the last 7 values, NaN (<<0, 0>>)
\* for the first 6 rows
Rolling7(values) ==
  [k \in 1..Len(values) |->
     IF k < 7 THEN <<0, 0>> ELSE <<SumSeq(SubSeq(values, k - 6, k)), 7>>]

\* px.line(daily_data, x='date', y='revenue') raises ValueError when daily_data has
\* no revenue column
RevenueTrendChartRaises(cm) ==
  /\ "daily_data" \in DOMAIN cm.trends
  /\ Len(cm.trends["daily_data"].date) > 0
  /\ "revenue" \notin DOMAIN cm.trends["daily_data"].cols

CreateRevenueTrendChart(cm) ==
  IF "daily_data" \in DOMAIN cm.trends /\ Len(cm.trends["daily_data"].date) > 0
  THEN LET daily_data == cm.trends["daily_data"]
       IN [ x |-> daily_data.date,
            y |-> daily_data.cols["revenue"],
            trend |-> Rolling7(daily_data.cols["revenue"]) ]
  ELSE NoFigure

CreateChannelPerformanceChart(cm) ==
  LET channel_ranking == ChannelRanking(cm)
  IN IF Len(channel_ranking) > 0
     THEN [ x |-> [i \in 1..Len(channel_ranking) |-> Title[channel_ranking[i]["channel"]]],
            revenue |-> [i \in 1..Len(channel_ranking) |-> channel_ranking[i]["revenue"]],
            spend |-> [i \in 1..Len(channel_ranking) |-> channel_ranking[i]["spend"]] ]
     ELSE NoFigure

\* the colour of a bar: green from 3.0, yellow from 2.0, else red (roas in hundredths)
RoasColor(roas) ==
  IF roas >= 300 THEN "#28a745" ELSE IF roas >= 200 THEN "#ffc107" ELSE "#dc3545"

CreateRoasComparisonChart(cm) ==
  LET channel_ranking == ChannelRanking(cm)
  IN IF Len(channel_ranking) > 0
     THEN [ x |-> [i \in 1..Len(channel_ranking) |-> Title[channel_ranking[i]["channel"]]],
            y |-> [i \in 1..Len(channel_ranking) |-> channel_ranking[i]["roas"]],
            marker_color |-> [i \in 1..Len(channel_ranking) |->
                                RoasColor(channel_ranking[i]["roas"])],
            hline |-> 300 ]
     ELSE NoFigure

CreateSpendVsRevenueChart(cm) ==
  LET channel_ranking == ChannelRanking(cm)
  IN IF Len(channel_ranking) > 0
     THEN [ x |-> [i \in 1..Len(channel_ranking) |-> channel_ranking[i]["spend"]],
            y |-> [i \in 1..Len(channel_ranking) |-> channel_ranking[i]["revenue"]],
            color |-> [i \in 1..Len(channel_ranking) |-> channel_ranking[i]["roas"]],
            hover_name |-> [i \in 1..Len(channel_ranking) |->
                              Title[channel_ranking[i]["channel"]]] ]
     ELSE NoFigure

CreateConversionFunnelChart(cm) ==
  [ y |-> <<"Impresiones", "Clics", "Conversiones">>,
    x |-> << Get(cm.overview, "total_impressions", 100000000),
             Get(cm.overview, "total_clicks", 5000000),
             Get(cm.overview, "total_conversions", 250000) >> ]

ChartNames ==
  {"revenue_trend", "channel_performance", "roas_comparison", "spend_vs_revenue",
   "conversion_funnel"}

\* the five figures drawn from a snapshot
ChartsOf(processed_data) ==
  IF IsDemo(processed_data)
  THEN [k \in ChartNames |-> <<processed_data.combined_metrics, k>>]
  ELSE LET cm == processed_data.combined_metrics
       IN [ revenue_trend |-> CreateRevenueTrendChart(cm),
            channel_performance |-> CreateChannelPerformanceChart(cm),
            roas_comparison |-> CreateRoasComparisonChart(cm),
            spend_vs_revenue |-> CreateSpendVsRevenueChart(cm),
            conversion_funnel |-> CreateConversionFunnelChart(cm) ]

\* the argument of a projection call: nothing (None), or the snapshot the last pass
\* returned
ViewArguments == {"none", "given"}

\* `if processed_data is None: processed_data = self.processed_cache`
Argument(arg) == IF arg = "none" THEN processed_cache ELSE returned

\* the snapshots the call may work on: the argument, or new demo data when the
\* argument has no combined_metrics
Defaulted(given) ==
  IF NeedsDemo(given) THEN {GenerateDemoData(clock, seed) : seed \in DemoSeeds}
  ELSE {given}

\* mutant of GetKpiMetrics: the snapshot the cards are made from is kept in
\* processed_cache, demo data included
GetKpiMetricsCaching ==
  /\ \E arg \in ViewArguments :
       /\ arg = "given" => returned # NoCache
       /\ \E processed_data \in Defaulted(Argument(arg)) :
            /\ view' = [ call |-> "get_kpi_metrics", arg |-> arg,
                         data |-> processed_data, at |-> clock, failed |-> FALSE ]
            /\ kpis' = KpisOf(processed_data)
            /\ processed_cache' = processed_data
  /\ UNCHANGED <<charts, chart_cache, clock>>
  /\ UNCHANGED <<connectors, returned, warnings, errors, fetched, previous_cache, changes>>
  /\ UNCHANGED <<normalizer_vars, wizard_vars>>

\* DataProcessor.get_kpi_metrics(processed_data), one whole call
GetKpiMetrics ==
  /\ \E arg \in ViewArguments :
       /\ arg = "given" => returned # NoCache
       /\ \E processed_data \in Defaulted(Argument(arg)) :
            /\ view' = [ call |-> "get_kpi_metrics", arg |-> arg,
                         data |-> processed_data, at |-> clock, failed |-> FALSE ]
            /\ kpis' = KpisOf(processed_data)
  /\ UNCHANGED <<charts, chart_cache, clock>>
  /\ UNCHANGED <<pipeline_vars, normalizer_vars, wizard_vars>>

\* DataProcessor.create_performance_charts(processed_data), one whole call; when a
\* figure raises, st.error is called and the charts of new demo data are drawn by the
\* nested call, which caches them
CreatePerformanceCharts ==
  /\ \E arg \in ViewArguments :
       /\ arg = "given" => returned # NoCache
       /\ \E processed_data \in Defaulted(Argument(arg)) :
            LET failed == /\ ~IsDemo(processed_data)
                          /\ RevenueTrendChartRaises(processed_data.combined_metrics)
            IN /\ view' = [ call |-> "create_performance_charts", arg |-> arg,
                            data |-> processed_data, at |-> clock, failed |-> failed ]
               /\ IF failed
                  THEN \E again \in DemoSeeds :
                         charts' = ChartsOf(GenerateDemoData(clock, again))
                  ELSE charts' = ChartsOf(processed_data)
               /\ chart_cache' = charts'
  /\ UNCHANGED <<kpis, clock>>
  /\ UNCHANGED <<pipeline_vars, normalizer_vars, wizard_vars>>

(* ------------------------ the pipeline, day series ---------------------- *)
(* Passes over connectors that deliver tables with a history of days.        *)

TrendConnectors == {"meta", "shopify", "csv"}

TrendOutcomes == {"off"} \cup TrendTables

InitTrends ==
  /\ \E chosen \in [TrendConnectors -> TrendOutcomes] :
       connectors = [c \in ConnectorNames |->
                       IF c \in TrendConnectors THEN chosen[c] ELSE "off"]
  /\ NewProcessor
  /\ NormalizerIdle
  /\ NoView
  /\ NoSession
  /\ clock = 0

NextTrends == ProcessMultiSourceData

SpecTrends == InitTrends /\ [][NextTrends]_vars

(* --------------------- the pipeline and its projection ------------------ *)
(* A connector delivers a day series (or fails); between passes it may be    *)
(* reconfigured; cards and charts are asked for at any time.                 *)

DashboardConnectors == {"meta"}

DashboardOutcomes == {"off", "X", "S", "T14", "T8", "Q8"}

InitDashboard ==
  /\ \E chosen \in [DashboardConnectors -> DashboardOutcomes] :
       connectors = [c \in ConnectorNames |->
                       IF c \in DashboardConnectors THEN chosen[c] ELSE "off"]
  /\ NewProcessor
  /\ NormalizerIdle
  /\ NoView
  /\ NoSession
  /\ clock = 0

\* connector.configure() / a disconnection / a change of what fetch_data answers
Reconnect ==
  /\ changes < MaxChanges
  /\ \E c \in DashboardConnectors, o \in DashboardOutcomes :
       /\ o # connectors[c]
       /\ connectors' = [connectors EXCEPT ![c] = o]
  /\ changes' = changes + 1
  /\ UNCHANGED <<processed_cache, previous_cache, returned, warnings, errors, fetched, clock>>
  /\ UNCHANGED <<normalizer_vars, dashboard_vars, wizard_vars>>

NextDashboard ==
  \/ ProcessMultiSourceData
  \/ Reconnect
  \/ GetKpiMetrics
  \/ CreatePerformanceCharts

SpecDashboard == InitDashboard /\ [][NextDashboard]_vars

(* --------------------------- the onboarding wizard ---------------------- *)
(* src/main.py is a Streamlit script that runs again from its first line    *)
(* after every interaction. session_state outlives the runs; the value of a *)
(* button is True only in the run its press caused. One action is one       *)
(* interaction with the runs it causes, up to the page left on the screen.  *)
(* The labels are written without accents.                                  *)

\* what the widgets of the steps hold when a button is pressed
CompanyNames == {"", "Acme", "Beta"}

Industries == {"Retail", "Otro"}

DataOptions == {"demo", "csv", "database", "api"}

SalesMetrics == {<<"Ventas Totales", "Crecimiento de Ventas">>, <<"Ventas Totales">>}

Themes == {"Claro", "Oscuro"}

\* the first lines of a run: a key that is missing gets its first value
InitialiseSession(state) ==
  [k \in {"onboarding_complete", "current_step", "user_config"} |->
     IF k \in DOMAIN state THEN state[k]
     ELSE CASE k = "onboarding_complete" -> FALSE
            [] k = "current_step" -> 1
            [] OTHER -> EmptyDict]

\* the last lines of a run: the page the run draws
Page(state) == IF ~state.onboarding_complete THEN "onboarding" ELSE "dashboard"

\* dict.update(values)
DictUpdate(d, values) == values @@ d

ContinuarNeverDisabled(company_name) == FALSE

\* the button "Continuar" of step 1 cannot be pressed: disabled=not company_name
ContinuarDisabled(company_name) == company_name = ""

\* st.rerun(), or the end of the run of a press: the script runs from the top on the
\* state the press left and draws its page
Rerun(button, state) ==
  /\ session_state' = InitialiseSession(state)
  /\ pressed' = button
  /\ shown' = Page(session_state')
  /\ UNCHANGED <<pipeline_vars, normalizer_vars, dashboard_vars, clock>>

\* the onboarding page is on the screen at the step
AtStep(n) == shown = "onboarding" /\ session_state.current_step = n

\* step 1, "Continuar"
ContinuarWelcome ==
  /\ AtStep(1)
  /\ \E company_name \in CompanyNames, industry \in Industries :
       /\ ~ContinuarDisabled(company_name)
       /\ Rerun("Continuar",
                [session_state EXCEPT
                   !.user_config = DictUpdate(@, [company_name |-> company_name,
                                                  industry |-> industry,
                                                  currency |-> "USD",
                                                  timezone |-> "America/Santiago"]),
                   !.current_step = 2])

\* step 2, one of the four option buttons: selected_source is a local of that run
\* and its configuration form is drawn in that run alone
OptionButton ==
  /\ AtStep(2)
  /\ \E key \in DataOptions : Rerun("btn_" \o key, session_state)

\* step 2, "Atras"
AtrasDataSource ==
  /\ AtStep(2)
  /\ Rerun("Atras", [session_state EXCEPT !.current_step = 1])

\* step 2, "Continuar": in the run of this press no option button is pressed, so
\* selected_source is None
ContinuarDataSource ==
  /\ AtStep(2)
  /\ Rerun("Continuar",
           [session_state EXCEPT
              !.user_config = DictUpdate(@, [data_source |-> "demo"]),
              !.current_step = 3])

\* step 3, "Atras"
AtrasMetrics ==
  /\ AtStep(3)
  /\ Rerun("Atras", [session_state EXCEPT !.current_step = 2])

\* step 3, "Continuar"
ContinuarMetrics ==
  /\ AtStep(3)
  /\ \E metrics_sales \in SalesMetrics :
       Rerun("Continuar",
             [session_state EXCEPT
                !.user_config = DictUpdate(@, [metrics_sales |-> metrics_sales,
                                               metrics_products |-> <<"Productos Mas Vendidos">>,
                                               metrics_customers |-> <<"Clientes Activos", "Nuevos Clientes">>,
                                               metrics_geo |-> <<"Ventas por Region">>]),
                !.current_step = 4])

\* step 4, "Atras"
AtrasVisualization ==
  /\ AtStep(4)
  /\ Rerun("Atras", [session_state EXCEPT !.current_step = 3])

\* step 4, "Continuar"
ContinuarVisualization ==
  /\ AtStep(4)
  /\ \E theme \in Themes :
       Rerun("Continuar",
             [session_state EXCEPT
                !.user_config = DictUpdate(@, [theme |-> theme,
                                               default_period |-> "Ultimos 7 dias",
                                               refresh_frequency |-> "Manual",
                                               number_format |-> "1,234.56",
                                               color_scheme |-> "Azul profesional"]),
                !.current_step = 5])

\* step 5, "Atras"
AtrasFinal ==
  /\ AtStep(5)
  /\ Rerun("Atras", [session_state EXCEPT !.current_step = 4])

\* step 5, "Reiniciar configuracion": every key of session_state is deleted
ReiniciarConfiguracion ==
  /\ AtStep(5)
  /\ Rerun("Reiniciar configuracion", EmptyDict)

\* step 5, "Completar configuracion"
CompletarConfiguracion ==
  /\ AtStep(5)
  /\ Rerun("Completar configuracion", [session_state EXCEPT !.onboarding_complete = TRUE])

\* the dashboard's sidebar, "Reconfigurar Dashboard"
ReconfigurarDashboard ==
  /\ shown = "dashboard"
  /\ Rerun("Reconfigurar Dashboard",
           [session_state EXCEPT !.onboarding_complete = FALSE, !.current_step = 1])

\* the first run of the script in a new browser session
InitOnboarding ==
  /\ connectors = [c \in ConnectorNames |-> "off"]
  /\ NewProcessor
  /\ NormalizerIdle
  /\ NoView
  /\ clock = 0
  /\ session_state = InitialiseSession(EmptyDict)
  /\ pressed = ""
  /\ shown = Page(session_state)

NextOnboarding ==
  \/ ContinuarWelcome
  \/ OptionButton
  \/ AtrasDataSource
  \/ ContinuarDataSource
  \/ AtrasMetrics
  \/ ContinuarMetrics
  \/ AtrasVisualization
  \/ ContinuarVisualization
  \/ AtrasFinal
  \/ ReiniciarConfiguracion
  \/ CompletarConfiguracion
  \/ ReconfigurarDashboard

SpecOnboarding == InitOnboarding /\ [][NextOnboarding]_vars

(* ------------------------------ properties ----------------------------- *)

\* a pass has run
Done == clock > 0

\* the last pass completed its aggregation and returned the snapshot it cached
Completed == Done /\ ~IsDemo(returned)

Position(c) == CHOOSE i \in 1..Len(ConnectorOrder) : ConnectorOrder[i] = c

Sources(pd) == {pd[i].source : i \in 1..Len(pd)}

\* the entries of channel_ranking, dereferenced, in list order
RankingOf(cm) ==
  IF "channel_ranking" \in DOMAIN cm.performance
  THEN [i \in 1..Len(cm.performance["channel_ranking"]) |->
          cm.objects[cm.performance["channel_ranking"][i]]]
  ELSE << >>

\* the sum of a field over every row of every table that has the column
CellSum(pd, field) ==
  LET cells == UNION {{<<i, r>> : r \in 1..pd[i].data.n} :
                        i \in {j \in 1..Len(pd) : HasCol(pd[j].data, field)}}
      RECURSIVE Add(_)
      Add(S) == IF S = {} THEN 0
                ELSE LET x == CHOOSE y \in S : TRUE
                     IN GetCol(pd[x[1]].data, field).vals[x[2]] + Add(S \ {x})
  IN Add(cells)

\* the sources whose own contribution to the aggregation does not raise
Healthy(pd) == SelectSeq(pd, LAMBDA e : ~SummationRaises(e.data) /\ ~AggEmptyRaises(e.data))

\* C1: when one source's contribution raises inside _combine_metrics, only that
\* source is skipped: the pass still returns the overview, channels and ranking of
\* the remaining sources, and not demo data.
C1_FailingSourceOnlySkipped ==
  Done =>
    LET pd == FetchAll(connectors, clock).processed
    IN Len(Healthy(pd)) < Len(pd) =>
         /\ ~IsDemo(returned)
         /\ returned.combined_metrics.overview = Overview(Healthy(pd))
         /\ DOMAIN returned.combined_metrics.channels = Sources(Healthy(pd))
         /\ Len(RankingOf(returned.combined_metrics)) = Len(Healthy(pd))

\* C2: a connector that raises in fetch_data or in its normalization leaves the
\* result of the pass what it would be with that connector not connected: same
\* overview, channels and ranking (or the same fall-back), no channel entry for it,
\* and the connectors after it are still fetched and processed.
C2_RaisingConnectorAsIfAbsent ==
  Done =>
    \A b \in warnings :
      LET ref == FetchAll([connectors EXCEPT ![b] = "off"], clock)
          later == {c \in Connected(connectors) : Position(c) > Position(b)}
      IN /\ later \subseteq fetched
         /\ IsDemo(returned) <=> CombineMetricsRaises(ref.processed)
         /\ ~IsDemo(returned) =>
              /\ returned.combined_metrics.overview = Overview(ref.processed)
              /\ returned.combined_metrics.channels = Channels(ref.processed)
              /\ RankingOf(returned.combined_metrics) = RankingOf(CombineMetrics(ref.processed))
              /\ b \notin DOMAIN returned.combined_metrics.channels
              /\ \A c \in later :
                   (connectors[c] \in TableNames \ {"E", "D"})
                     => c \in Sources(returned.raw_data)

\* C2 witness: one connector raised in fetch_data, another in its normalization, and a
\* connector iterated after both has its channel in the result
C2_Witness ==
  /\ Completed
  /\ \E b1 \in warnings, b2 \in warnings :
       /\ connectors[b1] = "raise"
       /\ connectors[b2] = "D"
       /\ \E c \in DOMAIN returned.combined_metrics.channels :
            Position(c) > Position(b1) /\ Position(c) > Position(b2)

\* C3: in every overview the aggregation produces, a ratio whose denominator sum is 0
\* is exactly 0, and every ratio is a finite number (never NaN or infinity).
C3_ZeroDenominatorRatioIsZero ==
  Completed =>
    LET o == returned.combined_metrics.overview
        pd == returned.raw_data
    IN /\ CellSum(pd, "spend") = 0 => o.overall_roas = 0
       /\ CellSum(pd, "impressions") = 0 => o.overall_ctr = 0
       /\ CellSum(pd, "clicks") = 0 => o.overall_conversion_rate = 0
       /\ {o.overall_roas, o.overall_ctr, o.overall_conversion_rate} \subseteq Nat

\* C3 witness: revenue and conversions were summed with no spend, no impressions and
\* no clicks anywhere
C3_Witness ==
  /\ Completed
  /\ CellSum(returned.raw_data, "revenue") > 0
  /\ CellSum(returned.raw_data, "conversions") > 0
  /\ CellSum(returned.raw_data, "spend") = 0
  /\ CellSum(returned.raw_data, "impressions") = 0
  /\ CellSum(returned.raw_data, "clicks") = 0

\* C4 as stated: each overview total equals the sum of the field over all rows of all
\* tables that have the column.
C4_TotalsEqualSums ==
  Completed =>
    LET o == returned.combined_metrics.overview
        pd == returned.raw_data
    IN /\ o.total_spend = CellSum(pd, "spend")
       /\ o.total_revenue = CellSum(pd, "revenue")
       /\ o.total_conversions = CellSum(pd, "conversions")
       /\ o.total_impressions = CellSum(pd, "impressions")
       /\ o.total_clicks = CellSum(pd, "clicks")

\* C4 amended: each overview total is that sum after the final conversion: rounded to
\* 2 decimals for spend and revenue, truncated to an integer for conversions,
\* impressions and clicks; a table lacking a column adds 0 to that total only.
C4_TotalsAreConvertedSums ==
  Completed =>
    LET o == returned.combined_metrics.overview
        pd == returned.raw_data
    IN /\ o.total_spend = 10 * RoundDiv(CellSum(pd, "spend"), 10)
       /\ o.total_revenue = 10 * RoundDiv(CellSum(pd, "revenue"), 10)
       /\ o.total_conversions = 1000 * (CellSum(pd, "conversions") \div 1000)
       /\ o.total_impressions = 1000 * (CellSum(pd, "impressions") \div 1000)
       /\ o.total_clicks = 1000 * (CellSum(pd, "clicks") \div 1000)

\* C4 witness: a table without a spend column contributed its revenue next to a table
\* with one, and the conversions sum was not a whole number
C4_Witness ==
  /\ Completed
  /\ \E i, j \in 1..Len(returned.raw_data) :
       /\ ~HasCol(returned.raw_data[i].data, "spend")
       /\ HasCol(returned.raw_data[i].data, "revenue")
       /\ HasCol(returned.raw_data[j].data, "spend")
  /\ CellSum(returned.raw_data, "conversions") % 1000 # 0
  /\ returned.combined_metrics.overview.total_revenue > 0

\* C5: a table in which base fields are missing (some of them or all of them) goes
\* through the whole aggregation pass without raising.
C5_MissingColumnsNeverRaise ==
  Done =>
    LET pd == FetchAll(connectors, clock).processed
    IN (\A i \in 1..Len(pd) : ~SummationRaises(pd[i].data))
         => ~errors /\ ~IsDemo(returned)

\* the sum of a field over the rows of one table, 0 when the column is missing
FieldSum(data, field) == CellSum(<<Entry("", data)>>, field)

Both(data, f, g) == HasCol(data, f) /\ HasCol(data, g)

\* n / d * k rounded to the nearest integer when d > 0, else 0
Rounded(n, d, k) == IF d > 0 THEN RoundDiv(k * n, d) ELSE 0

\* the entry of channel_ranking of a source
RankedEntry(cm, src) ==
  LET rk == RankingOf(cm)
  IN rk[CHOOSE i \in 1..Len(rk) : rk[i]["channel"] = src]

\* C6 as stated: channels[source_id] always holds roas, ctr and cpc: the computed
\* ratio when both input columns exist and the denominator sum is > 0, else 0.
C6_DerivedFieldsDefaultZero ==
  Completed =>
    \A i \in 1..Len(returned.raw_data) :
      LET d == returned.raw_data[i].data
          m == returned.combined_metrics.channels[returned.raw_data[i].source]
      IN /\ {"roas", "ctr", "cpc"} \subseteq DOMAIN m
         /\ m["roas"] = IF Both(d, "spend", "revenue")
                        THEN Rounded(FieldSum(d, "revenue"), FieldSum(d, "spend"), 100) ELSE 0
         /\ m["ctr"] = IF Both(d, "clicks", "impressions")
                       THEN Rounded(FieldSum(d, "clicks"), FieldSum(d, "impressions"), 10000)
                       ELSE 0
         /\ m["cpc"] = IF Both(d, "spend", "clicks")
                       THEN Rounded(FieldSum(d, "spend"), FieldSum(d, "clicks"), 100) ELSE 0

\* C6 amended: channels[source_id] holds roas, ctr or cpc exactly when both input
\* columns exist, and then the rounded ratio, or 0 when the denominator sum is not
\* > 0; when an input column is missing the key is absent from channels[source_id]
\* and the source's entry in channel_ranking carries the default 0.
C6_DerivedFieldsPresentOrAbsent ==
  Completed =>
    \A i \in 1..Len(returned.raw_data) :
      LET d == returned.raw_data[i].data
          src == returned.raw_data[i].source
          m == returned.combined_metrics.channels[src]
          e == RankedEntry(returned.combined_metrics, src)
      IN /\ "roas" \in DOMAIN m <=> Both(d, "spend", "revenue")
         /\ "ctr" \in DOMAIN m <=> Both(d, "clicks", "impressions")
         /\ "cpc" \in DOMAIN m <=> Both(d, "spend", "clicks")
         /\ "roas" \in DOMAIN m =>
              m["roas"] = Rounded(FieldSum(d, "revenue"), FieldSum(d, "spend"), 100)
         /\ "ctr" \in DOMAIN m =>
              m["ctr"] = Rounded(FieldSum(d, "clicks"), FieldSum(d, "impressions"), 10000)
         /\ "cpc" \in DOMAIN m =>
              m["cpc"] = Rounded(FieldSum(d, "spend"), FieldSum(d, "clicks"), 100)
         /\ e["roas"] = (IF "roas" \in DOMAIN m THEN m["roas"] ELSE 0)
         /\ e["ctr"] = (IF "ctr" \in DOMAIN m THEN m["ctr"] ELSE 0)
         /\ e["cpc"] = (IF "cpc" \in DOMAIN m THEN m["cpc"] ELSE 0)

\* C6 witness: a table with a spend column and no revenue column was aggregated next
\* to a table with both and a positive spend
C6_Witness ==
  /\ Completed
  /\ \E i, j \in 1..Len(returned.raw_data) :
       /\ HasCol(returned.raw_data[i].data, "spend")
       /\ ~HasCol(returned.raw_data[i].data, "revenue")
       /\ "roas" \notin DOMAIN returned.combined_metrics.channels[returned.raw_data[i].source]
       /\ RankedEntry(returned.combined_metrics, returned.raw_data[i].source)["roas"] = 0
       /\ Both(returned.raw_data[j].data, "spend", "revenue")
       /\ returned.combined_metrics.channels[returned.raw_data[j].source]["roas"] > 0

\* the scenario: exactly two sources, A = {spend 100, revenue 400} and
\* B = {spend 50, revenue 50}; a and b are their positions in processed_data
IsScenario(pd, a, b) ==
  /\ Len(pd) = 2 /\ {a, b} = {1, 2}
  /\ FieldSum(pd[a].data, "spend") = 100000 /\ FieldSum(pd[a].data, "revenue") = 400000
  /\ FieldSum(pd[b].data, "spend") = 50000 /\ FieldSum(pd[b].data, "revenue") = 50000
  /\ Both(pd[a].data, "spend", "revenue") /\ Both(pd[b].data, "spend", "revenue")

\* channel_ranking is ordered by non-increasing roas, each roas being the rounded
\* revenue / spend of the source, or 0 when it cannot be computed
RankingOrdered ==
  LET rk == RankingOf(returned.combined_metrics)
      pd == returned.raw_data
  IN /\ \A i, j \in 1..Len(rk) : i < j => rk[i]["roas"] >= rk[j]["roas"]
     /\ {rk[i]["channel"] : i \in 1..Len(rk)} = Sources(pd)
     /\ \A i \in 1..Len(pd) :
          RankedEntry(returned.combined_metrics, pd[i].source)["roas"]
            = IF Both(pd[i].data, "spend", "revenue")
              THEN Rounded(FieldSum(pd[i].data, "revenue"), FieldSum(pd[i].data, "spend"), 100)
              ELSE 0

ScenarioRanking(a, b) ==
  LET rk == RankingOf(returned.combined_metrics)
      pd == returned.raw_data
  IN /\ Len(rk) = 2
     /\ rk[1]["channel"] = pd[a].source /\ rk[1]["roas"] = 400
     /\ rk[2]["channel"] = pd[b].source /\ rk[2]["roas"] = 100

\* C7 as stated: the ranking is ordered by non-increasing roas, and in the scenario it
\* is [A (4.0), B (1.0)] with overall_roas 3.33.
C7_RankingAndScenario333 ==
  Completed =>
    /\ RankingOrdered
    /\ \A a, b \in 1..Len(returned.raw_data) :
         IsScenario(returned.raw_data, a, b) =>
           /\ ScenarioRanking(a, b)
           /\ returned.combined_metrics.overview.overall_roas = 333

\* C7 amended: the ranking is ordered by non-increasing roas, and in the scenario it
\* is [A (4.0), B (1.0)] with overall_roas 3.0 (revenue 450 over spend 150).
C7_RankingAndScenario ==
  Completed =>
    /\ RankingOrdered
    /\ \A a, b \in 1..Len(returned.raw_data) :
         IsScenario(returned.raw_data, a, b) =>
           /\ ScenarioRanking(a, b)
           /\ returned.combined_metrics.overview.overall_roas = 300

\* C7 witness: the scenario, with B processed before A so that the sort reorders
C7_Witness == Completed /\ IsScenario(returned.raw_data, 2, 1)

RECURSIVE SumOfShares(_)
SumOfShares(rk) ==
  IF Len(rk) = 0 THEN 0 ELSE Head(rk)["spend_percentage"] + SumOfShares(Tail(rk))

RECURSIVE SumOfSpend(_)
SumOfSpend(rk) == IF Len(rk) = 0 THEN 0 ELSE Head(rk)["spend"] + SumOfSpend(Tail(rk))

Abs(x) == IF x >= 0 THEN x ELSE 0 - x

\* C8 as stated: when the total spend of the ranked channels is > 0 the
\* spend_percentage values sum to 100 (1000 tenths).
C8_SharesSumTo100 ==
  Completed =>
    LET rk == RankingOf(returned.combined_metrics)
    IN SumOfSpend(rk) > 0 => SumOfShares(rk) = 1000

\* C8 amended: when the total spend is > 0 every spend_percentage is the channel's
\* share rounded to 1 decimal, so the values sum to 100 only up to the rounding:
\* the sum differs from 100 by at most 0.05 per ranked channel.
C8_SharesSumTo100UpToRounding ==
  Completed =>
    LET rk == RankingOf(returned.combined_metrics)
    IN SumOfSpend(rk) > 0 =>
         /\ \A i \in 1..Len(rk) :
              rk[i]["spend_percentage"] = RoundDiv(1000 * rk[i]["spend"], SumOfSpend(rk))
         /\ 2 * Abs(SumOfShares(rk) - 1000) <= Len(rk)

\* C8 witness: three channels with equal spend, 33.3 each, 99.9 in all
C8_Witness ==
  /\ Completed
  /\ LET rk == RankingOf(returned.combined_metrics)
     IN Len(rk) = 3 /\ SumOfSpend(rk) > 0 /\ SumOfShares(rk) = 999

\* C9: every entry of channel_ranking carries spend_percentage, which is 0 when the
\* total spend across channels is 0.
C9_EveryEntryHasShare ==
  Completed =>
    LET rk == RankingOf(returned.combined_metrics)
    IN \A i \in 1..Len(rk) :
         /\ "spend_percentage" \in DOMAIN rk[i]
         /\ SumOfSpend(rk) = 0 => rk[i]["spend_percentage"] = 0

\* C10: best_channel is the entry at channel_ranking[0], worst_channel the entry at
\* channel_ranking[-1] and set only with 2 or more ranked channels; both are the very
\* objects of the list, with the same roas, spend and spend_percentage.
C10_BestWorstAreRankingEntries ==
  Completed =>
    LET cm == returned.combined_metrics
        p == cm.performance
    IN "channel_ranking" \in DOMAIN p =>
         LET rk == p["channel_ranking"]
         IN /\ p["best_channel"] = rk[1]
            /\ cm.objects[p["best_channel"]] = cm.objects[rk[1]]
            /\ p["worst_channel"] # None <=> Len(rk) >= 2
            /\ Len(rk) >= 2 =>
                 /\ p["worst_channel"] = rk[Len(rk)]
                 /\ cm.objects[p["worst_channel"]] = cm.objects[rk[Len(rk)]]

\* C10 witness: two or more ranked channels with different roas, annotated with their
\* spend share
C10_Witness ==
  /\ Completed
  /\ LET cm == returned.combined_metrics
     IN /\ "channel_ranking" \in DOMAIN cm.performance
        /\ Len(cm.performance["channel_ranking"]) >= 2
        /\ cm.performance["best_channel"] # cm.performance["worst_channel"]
        /\ "spend_percentage" \in DOMAIN cm.objects[cm.performance["best_channel"]]
        /\ cm.objects[cm.performance["best_channel"]]["roas"]
             > cm.objects[cm.performance["worst_channel"]]["roas"]

TopKeys == {"overview", "channels", "trends", "performance"}

PerformanceKeys == {"channel_ranking", "best_channel", "worst_channel"}

\* C11 as stated: every result of a pass that aggregated, for any set of sources
\* including the empty set, has the keys overview, channels, trends and performance,
\* and its performance part has channel_ranking, best_channel and worst_channel.
C11_ResultHasAllKeys ==
  Completed =>
    /\ TopKeys \subseteq DOMAIN returned.combined_metrics
    /\ PerformanceKeys \subseteq DOMAIN returned.combined_metrics.performance

\* C11 amended: every result has the four keys; its performance part has
\* channel_ranking, best_channel and worst_channel exactly when at least one
\* non-empty table was aggregated, and is the empty mapping otherwise (in
\* particular for the empty set of sources).
C11_PerformanceKeysWhenRanked ==
  Completed =>
    /\ TopKeys \subseteq DOMAIN returned.combined_metrics
    /\ DOMAIN returned.combined_metrics.performance
         = IF Len(returned.raw_data) > 0 THEN PerformanceKeys ELSE {}

\* C11 witness: a pass over an empty set of sources (a connector was asked and gave
\* nothing), whose overview is all zero and whose performance part is empty
C11_Witness ==
  /\ Completed
  /\ fetched # {}
  /\ Len(returned.raw_data) = 0
  /\ returned.combined_metrics.overview.total_spend = 0
  /\ DOMAIN returned.combined_metrics.performance = {}
  /\ DOMAIN returned.combined_metrics.channels = {}

\* the connectors whose is_connected() is false
Off == {c \in ConnectorNames : connectors[c] = "off"}

\* C13: a pass never calls fetch_data on a connector whose is_connected() is false;
\* such a connector has no entry in raw_data, channels or the ranking, adds nothing
\* to any total (the totals are those of the tables of raw_data) and raises no
\* warning; with every connector off the pass raises no error either.
C13_DisconnectedConnectorSkipped ==
  Done =>
    /\ fetched \cap Off = {}
    /\ warnings \cap Off = {}
    /\ (Off = ConnectorNames) => (~errors /\ Completed /\ returned.raw_data = << >>)
    /\ Completed =>
         LET cm == returned.combined_metrics
             pd == returned.raw_data
         IN /\ Sources(pd) \cap Off = {}
            /\ DOMAIN cm.channels \cap Off = {}
            /\ {RankingOf(cm)[i]["channel"] : i \in 1..Len(RankingOf(cm))} \cap Off = {}
            /\ cm.overview.total_spend = 10 * RoundDiv(CellSum(pd, "spend"), 10)
            /\ cm.overview.total_revenue = 10 * RoundDiv(CellSum(pd, "revenue"), 10)
            /\ cm.overview.total_conversions = 1000 * (CellSum(pd, "conversions") \div 1000)
            /\ cm.overview.total_impressions = 1000 * (CellSum(pd, "impressions") \div 1000)
            /\ cm.overview.total_clicks = 1000 * (CellSum(pd, "clicks") \div 1000)

\* C13 witness: a connector that is off stands, in the connectors' order, between two
\* connected ones whose tables were both aggregated
C13_Witness ==
  /\ Completed
  /\ \E c \in Off : \E a, b \in DOMAIN returned.combined_metrics.channels :
       /\ Position(a) < Position(c) /\ Position(c) < Position(b)
       /\ c \notin fetched
       /\ c \in Configurable

\* every row of the table carries this value in the column
AllRows(data, name, v) ==
  HasCol(data, name) /\ \A r \in 1..data.n : GetCol(data, name).vals[r] = v

\* C14: after every pass that completes its aggregation, processed_cache is a newly
\* built snapshot with the keys raw_data, combined_metrics and last_updated, equal
\* to the returned value and made only of tables fetched and normalized in that
\* pass: every table of raw_data comes from a connector asked in this pass and is
\* stamped with this pass's time, and the channels, the ranking and the totals are
\* those of these tables alone, whatever the cache held before.
C14_CacheIsFreshSnapshot ==
  Completed =>
    LET pd == processed_cache.raw_data
        cm == processed_cache.combined_metrics
    IN /\ returned = processed_cache
       /\ DOMAIN processed_cache = {"raw_data", "combined_metrics", "last_updated"}
       /\ processed_cache.last_updated = clock
       /\ Sources(pd) \subseteq fetched \ warnings
       /\ \A i \in 1..Len(pd) :
            /\ AllRows(pd[i].data, "processed_at", clock)
            /\ AllRows(pd[i].data, "source", pd[i].source)
       /\ \A i, j \in 1..Len(pd) : pd[i].source = pd[j].source => i = j
       /\ DOMAIN cm.channels = Sources(pd)
       /\ {RankingOf(cm)[i]["channel"] : i \in 1..Len(RankingOf(cm))} = Sources(pd)
       /\ Len(RankingOf(cm)) = Len(pd)
       /\ cm.overview.total_spend = 10 * RoundDiv(CellSum(pd, "spend"), 10)
       /\ cm.overview.total_revenue = 10 * RoundDiv(CellSum(pd, "revenue"), 10)

\* C14 witness: a second pass replaced a snapshot that held a source which was
\* disconnected in between; the new snapshot holds only the source still connected
C14_Witness ==
  /\ Completed
  /\ clock >= 2
  /\ changes > 0
  /\ "raw_data" \in DOMAIN previous_cache
  /\ \E gone \in Sources(previous_cache.raw_data) \cap Off :
       /\ gone \notin Sources(processed_cache.raw_data)
       /\ Sources(processed_cache.raw_data) # {}
       /\ previous_cache.combined_metrics.overview
            # processed_cache.combined_metrics.overview

\* the call of the normalizer returned a table
Returned == outcome = "returned"

\* C15: a call of _standardize_data_format leaves the caller's table as it was (same
\* columns, same values), and the table it returns is another object that carries a
\* source column equal to the source id in every row and a processed_at column.
C15_RawTableNotMutated ==
  [][ /\ frames'[raw'] = frames[raw]
      /\ outcome' = "returned" =>
           /\ result' # raw'
           /\ AllRows(frames'[result'], "source", source_id')
           /\ AllRows(frames'[result'], "processed_at", clock') ]_vars

\* C15 witness: a table with rows, without date, spend or source column, came back as
\* another object that has all three, the caller's table still having none
C15_Witness ==
  /\ Returned
  /\ result # raw
  /\ frames[raw].n > 0
  /\ HasCol(frames[raw], "Cost")
  /\ ColNames(frames[raw]) \cap {"date", "spend", "source", "processed_at"} = {}
  /\ {"date", "spend", "source", "processed_at"} \subseteq ColNames(frames[result])

\* C16: in the table returned, every column of the raw table is still present with
\* its original values, a raw column that already bears a canonical name included
\* (a raw spend column next to a cost column, a raw revenue column of a generic
\* upload next to a column containing 'total').
C16_RawColumnsKept ==
  Returned =>
    \A k \in 1..Len(frames[raw].cols) :
      LET c == frames[raw].cols[k]
      IN /\ HasCol(frames[result], c.name)
         /\ GetCol(frames[result], c.name).vals = c.vals

\* the positions of the raw columns whose lower-cased name is one of the names
Named(t, names) == {k \in 1..Len(t.cols) : Lower(t.cols[k].name) \in names}

AovNames == {"aov", "average_order_value", "valor_promedio"}

EcommerceRevenueNames == {"revenue", "sales", "ventas", "total_sales"}

OrdersNames == {"orders", "pedidos", "order_count"}

\* C17: for an e-commerce table, when the raw table has no aov column (nor a synonym
\* of it) but has revenue and orders (or synonyms), the normalizer adds aov with
\* aov = revenue / orders in every row where orders # 0; when an aov column or a
\* synonym is there, aov holds that column's values and is not recomputed; without
\* revenue or without orders no aov is added.
C17_AovBackfill ==
  (Returned /\ source_id \in EcommerceSources) =>
    LET r == frames[raw]
        t == frames[result]
        given == Named(r, AovNames) # {}
        both == Named(r, EcommerceRevenueNames) # {} /\ Named(r, OrdersNames) # {}
    IN /\ given =>
            /\ GetCol(t, "aov").dtype = "num"
            /\ GetCol(t, "aov").vals \in {r.cols[k].vals : k \in Named(r, AovNames)}
       /\ (~given /\ both) =>
            /\ HasCol(t, "aov")
            /\ \A i \in 1..t.n :
                 LET aov == GetCol(t, "aov").vals[i]
                     revenue == GetCol(t, "revenue").vals[i]
                     orders == GetCol(t, "orders").vals[i]
                 IN orders # 0 => (aov[2] # 0 /\ aov[1] * orders = revenue * aov[2])
       /\ (~given /\ ~both) => ~HasCol(t, "aov")

\* C17 witness: a shop table with sales and orders and no aov, one row with orders 0
\* and one with orders 2, came back with revenue and a computed aov
C17_Witness ==
  /\ Returned
  /\ source_id = "shopify"
  /\ Named(frames[raw], AovNames) = {}
  /\ HasCol(frames[raw], "sales") /\ ~HasCol(frames[raw], "revenue")
  /\ HasCol(frames[raw], "orders")
  /\ \E i, j \in 1..frames[raw].n :
       /\ GetCol(frames[raw], "orders").vals[i] = 0
       /\ GetCol(frames[raw], "orders").vals[j] # 0
       /\ GetCol(frames[result], "aov").vals[j]
            = <<GetCol(frames[raw], "sales").vals[j], GetCol(frames[raw], "orders").vals[j]>>

\* the normalizer was called
Called == outcome # "idle"

MetadataNames == {"source", "processed_at"}

\* the mapping of a source type
MappingOf(src) ==
  IF src \in AdsSources THEN AdsMapping
  ELSE IF src \in EcommerceSources THEN EcommerceMapping
  ELSE IF src \in EmailSources THEN EmailMapping
  ELSE IF src = "ga4" THEN AnalyticsMapping
  ELSE IF src = "csv" THEN CommonPatterns
  ELSE << >>

\* the canonical and backfilled column names of a source type
DerivedNames(src) ==
  {MappingOf(src)[k].std : k \in 1..Len(MappingOf(src))}
    \cup (IF src \in EcommerceSources THEN {"aov"} ELSE {})
    \cup (IF src \in EmailSources THEN {"open_rate", "click_rate"} ELSE {})

\* C18 as stated: a table with zero rows given to the normalizer comes back with its
\* columns and the source and processed_at columns and nothing else, and no
\* exception is raised, for every source type.
C18_EmptyTableOnlyTagged ==
  (Called /\ frames[raw].n = 0) =>
    /\ Returned
    /\ ColNames(frames[result]) = ColNames(frames[raw]) \cup MetadataNames
    /\ \A k \in 1..Len(frames[raw].cols) :
         frames[raw].cols[k].name \notin MetadataNames =>
           GetCol(frames[result], frames[raw].cols[k].name) = frames[raw].cols[k]

\* C18 amended: a table with zero rows given to the normalizer raises no exception,
\* for every source type, and comes back with zero rows and all its columns; besides
\* source and processed_at it is given a date column when it has none, and the
\* canonical-named and backfilled columns of its source type, like a table with rows.
C18_EmptyTableNormalized ==
  (Called /\ frames[raw].n = 0) =>
    /\ Returned
    /\ frames[result].n = 0
    /\ \A k \in 1..Len(frames[result].cols) : frames[result].cols[k].vals = << >>
    /\ ColNames(frames[raw]) \cup MetadataNames \cup {"date"} \subseteq ColNames(frames[result])
    /\ ColNames(frames[result])
         \subseteq ColNames(frames[raw]) \cup MetadataNames \cup {"date"} \cup DerivedNames(source_id)
    /\ \A k \in 1..Len(MappingOf(source_id)) :
         (source_id # "csv" /\ Named(frames[raw], LowerNames(MappingOf(source_id)[k].names)) # {})
           => HasCol(frames[result], MappingOf(source_id)[k].std)

\* C18 witness: an ads table without rows, with a Cost column and no date column,
\* came back with a date column and a spend column
C18_Witness ==
  /\ Returned
  /\ source_id = "meta"
  /\ frames[raw].n = 0
  /\ HasCol(frames[raw], "Cost")
  /\ ColNames(frames[raw]) \cap {"date", "spend"} = {}
  /\ {"date", "spend"} \subseteq ColNames(frames[result])

\* the source types whose mapping matches whole names
ExactPaths == AdsSources \cup EcommerceSources \cup EmailSources \cup {"ga4"}

\* the positions in a synonym list of the synonyms some column of the table bears
SynonymsPresent(t, names) ==
  {j \in 1..Len(names) : Named(t, {Lower(names[j])}) # {}}

Least(S) == CHOOSE x \in S : \A y \in S : x <= y

\* C19 as stated: on the ads, e-commerce, email and web-analytics paths the column
\* that bears the earliest synonym of a canonical field, in synonym-list order,
\* supplies the field, whatever the order of the columns in the table.
C19_EarliestSynonymWins ==
  (Returned /\ source_id \in ExactPaths) =>
    \A k \in 1..Len(MappingOf(source_id)) :
      LET m == MappingOf(source_id)[k]
          present == SynonymsPresent(frames[raw], m.names)
      IN present # {} =>
           /\ HasCol(frames[result], m.std)
           /\ GetCol(frames[result], m.std).vals
                \in {frames[raw].cols[i].vals :
                       i \in Named(frames[raw], {Lower(m.names[Least(present)])})}

\* C19 amended: on these paths the synonyms are matched case-insensitively and
\* exactly, in the order of the table's columns: the first column of the table whose
\* lower-cased name is any synonym of the field supplies it and no later column is
\* used, whatever the place of its name in the synonym list; a field none of whose
\* synonyms is a column is not added (aov apart, which is computed).
C19_FirstColumnWins ==
  (Returned /\ source_id \in ExactPaths) =>
    \A k \in 1..Len(MappingOf(source_id)) :
      LET m == MappingOf(source_id)[k]
          hits == Named(frames[raw], LowerNames(m.names))
      IN IF hits # {}
         THEN /\ HasCol(frames[result], m.std)
              /\ GetCol(frames[result], m.std).vals = frames[raw].cols[Least(hits)].vals
         ELSE HasCol(frames[result], m.std) => m.std = "aov"

\* C19 witness: an ads table whose gasto column stands before its Cost column (cost
\* is the earlier synonym) came back with the values of gasto as spend
C19_Witness ==
  /\ Returned
  /\ source_id = "meta"
  /\ frames[raw].n > 0
  /\ HasCol(frames[raw], "gasto") /\ HasCol(frames[raw], "Cost")
  /\ ~HasCol(frames[raw], "spend")
  /\ ColIndex(frames[raw], "gasto") < ColIndex(frames[raw], "Cost")
  /\ GetCol(frames[result], "spend").vals = GetCol(frames[raw], "gasto").vals
  /\ GetCol(frames[result], "spend").vals # GetCol(frames[raw], "Cost").vals

\* the positions of the raw columns whose lower-cased name contains a date-like word
DateLike(t) ==
  {k \in 1..Len(t.cols) :
     \E w \in {"date", "fecha", "time"} : Contains(w, Lower(t.cols[k].name))}

\* the date column is a daily sequence, one date per row, ending at the current date
Fabricated(t) ==
  /\ HasCol(t, "date")
  /\ \A i \in 1..t.n : GetCol(t, "date").vals[i] = clock - t.n + i

\* C20: the normalizer synthesizes a daily date sequence ending at the current date
\* if and only if no column of the raw table matches 'date', 'fecha' or 'time'; when
\* such a column exists (one named 'time', say) the date column is taken from it and
\* no dates are fabricated.
C20_DatesFabricatedIffNoDateLikeColumn ==
  (Returned /\ frames[raw].n > 0) =>
    /\ Fabricated(frames[result]) <=> DateLike(frames[raw]) = {}
    /\ DateLike(frames[raw]) # {} =>
         \E k \in DateLike(frames[raw]) :
           /\ frames[raw].cols[k].dtype = "date"
           /\ GetCol(frames[result], "date").vals = frames[raw].cols[k].vals

(* ------------------------- C21: spend of an upload --------------------- *)

SpendKeywords == {"cost", "spend", "gasto", "inversion"}

\* the numeric columns of a raw table whose name contains a spend keyword
SpendLike(t) ==
  {i \in 1..Len(t.cols) :
     /\ t.cols[i].dtype = "num"
     /\ \E k \in SpendKeywords : Contains(k, Lower(t.cols[i].name))}

\* the entries of the other sources
Others(pd, src) == SelectSeq(pd, LAMBDA e : e.source # src)

\* C21: for a csv table, a numeric column whose name contains a spend keyword (cost,
\* spend, gasto, inversion) is mapped onto the canonical spend field: its values are
\* counted in the overview total_spend, in the channel's total_spend and roas, and in
\* the spend of the channel's ranking entry.
C21_CsvSpendKeywordCounted ==
  (Completed /\ "csv" \in Sources(returned.raw_data)) =>
    LET t == RawTable(connectors["csv"])
        cm == returned.combined_metrics
    IN SpendLike(t) # {} =>
         \E i \in SpendLike(t) :
           LET spent == SumSeq(t.cols[i].vals)
           IN /\ "total_spend" \in DOMAIN cm.channels["csv"]
              /\ cm.channels["csv"]["total_spend"] = spent
              /\ HasCol(t, "revenue") \/ HasCol(t, "sales")
                   => "roas" \in DOMAIN cm.channels["csv"]
              /\ RankedEntry(cm, "csv")["spend"] = spent
              /\ cm.overview.total_spend
                   = Round2(spent + TotalOf(Others(returned.raw_data, "csv"), "spend"))

(* ------------------------ C22: per-source trend ------------------------ *)

\* the sum of a column over the rows lo..hi, in index order
RowsSum(data, name, lo, hi) ==
  LET v == GetCol(data, name).vals
      RECURSIVE Add(_)
      Add(i) == IF i > hi THEN 0 ELSE v[i] + Add(i + 1)
  IN Add(lo)

\* the change of the second half's mean revenue against the first half's, in percent
\* rounded to 1 decimal (tenths); 0 when the first half's mean is 0
HalvesChange(data) ==
  LET mid == data.n \div 2
      first == RowsSum(data, "revenue", 1, mid)
      second == RowsSum(data, "revenue", mid + 1, data.n)
      rest == data.n - mid
  IN IF first = 0 THEN 0
     ELSE RoundDiv(1000 * (second * mid - first * rest), first * rest)

\* C22: a channel has a revenue_trend exactly when its table has more than 7 rows and
\* a revenue column; the rows are split in index order at len // 2 and the trend is
\* the percentage change of the second half's mean revenue against the first half's,
\* rounded to 1 decimal, 0 when the first half's mean is 0; 14 rows of revenue
\* [10]*7 + [20]*7 give 100.0.
C22_RevenueTrendByHalves ==
  Completed =>
    \A i \in 1..Len(returned.raw_data) :
      LET data == returned.raw_data[i].data
          ch == returned.combined_metrics.channels[returned.raw_data[i].source]
      IN /\ ("revenue_trend" \in DOMAIN ch) <=> (data.n > 7 /\ HasCol(data, "revenue"))
         /\ "revenue_trend" \in DOMAIN ch => ch["revenue_trend"] = HalvesChange(data)
         /\ (HasCol(data, "revenue")
             /\ GetCol(data, "revenue").vals = Repeat(10000, 7) \o Repeat(20000, 7))
              => ch["revenue_trend"] = 1000

\* C22 witness: a table whose rows run backwards in time got the trend of its index
\* order (+200.0), a table of 7 rows got none, and a table whose first half has no
\* revenue got 0
C22_Witness ==
  /\ Completed
  /\ \E a, b, c \in 1..Len(returned.raw_data) :
       LET da == returned.raw_data[a].data
           db == returned.raw_data[b].data
           dc == returned.raw_data[c].data
           chan(k) == returned.combined_metrics.channels[returned.raw_data[k].source]
       IN /\ GetCol(da, "date").vals[1] > GetCol(da, "date").vals[da.n]
          /\ chan(a)["revenue_trend"] = 2000
          /\ db.n = 7 /\ HasCol(db, "revenue") /\ "revenue_trend" \notin DOMAIN chan(b)
          /\ RowsSum(dc, "revenue", 1, dc.n \div 2) = 0
          /\ RowsSum(dc, "revenue", dc.n \div 2 + 1, dc.n) > 0
          /\ chan(c)["revenue_trend"] = 0

(* ---------------------- C23, C24: week over week ----------------------- *)

TrendMetrics == {"spend", "revenue", "conversions"}

\* the dates of all rows of all tables
AllDates(pd) ==
  UNION {{GetCol(pd[i].data, "date").vals[r] : r \in 1..pd[i].data.n} : i \in 1..Len(pd)}

\* the sum of a field over every row dated d of every table that has the column
DateSum(pd, field, d) ==
  LET cells == UNION {{<<i, r>> : r \in {q \in 1..pd[i].data.n :
                                           GetCol(pd[i].data, "date").vals[q] = d}} :
                        i \in {j \in 1..Len(pd) : HasCol(pd[j].data, field)}}
      RECURSIVE Add(_)
      Add(S) == IF S = {} THEN 0
                ELSE LET x == CHOOSE y \in S : TRUE
                     IN GetCol(pd[x[1]].data, field).vals[x[2]] + Add(S \ {x})
  IN Add(cells)

\* the daily totals of the last completed pass
Daily == returned.combined_metrics.trends["daily_data"]

HasDaily == Completed /\ "daily_data" \in DOMAIN returned.combined_metrics.trends

\* the positions of the last 7 days and of the days they are compared with
RecentDays(n) == (n - 6)..n

PreviousDays(n) == IF n >= 14 THEN (n - 13)..(n - 7) ELSE 1..(n - 7)

\* the sum of the values at the positions S
SumOver(values, S) ==
  LET RECURSIVE Add(_)
      Add(R) == IF R = {} THEN 0
                ELSE LET i == CHOOSE j \in R : TRUE IN values[i] + Add(R \ {i})
  IN Add(S)

\* one row per distinct date, ascending, holding the sums over all sources
OneRowPerDay ==
  HasDaily =>
    /\ \A k \in 1..(Len(Daily.date) - 1) : Daily.date[k] < Daily.date[k + 1]
    /\ {Daily.date[k] : k \in 1..Len(Daily.date)} = AllDates(returned.raw_data)
    /\ DOMAIN Daily.cols
         = {f \in BaseFieldSet : \E i \in 1..Len(returned.raw_data) :
                                   HasCol(returned.raw_data[i].data, f)}
    /\ \A f \in DOMAIN Daily.cols : \A k \in 1..Len(Daily.date) :
         Daily.cols[f][k] = DateSum(returned.raw_data, f, Daily.date[k])

\* the metrics with a column, 8 or more days and a positive previous-window mean
Comparable(m) ==
  /\ HasDaily
  /\ m \in DOMAIN Daily.cols
  /\ Len(Daily.date) >= 8
  /\ SumOver(Daily.cols[m], PreviousDays(Len(Daily.date))) > 0

\* (mean(recent) - mean(previous)) / mean(previous) * 100 in tenths, as the fraction
\* <<numerator, denominator>>
WeekChange(m) ==
  LET n == Len(Daily.date)
      recent == SumOver(Daily.cols[m], RecentDays(n))
      previous == SumOver(Daily.cols[m], PreviousDays(n))
      k == Cardinality(PreviousDays(n))
  IN <<1000 * (recent * k - previous * 7), previous * 7>>

\* C23 as stated: the TrendSeries has one row per distinct date, ascending, with the
\* sums over all sources; with 8 or more days the week-over-week figure of spend,
\* revenue and conversions is (mean(days[-7:]) - mean(prev)) / mean(prev) * 100, with
\* prev = days[-14:-7] for 14 or more days and days[:-7] otherwise, windows that never
\* overlap.
C23_WeekOverWeekExact ==
  /\ OneRowPerDay
  /\ \A m \in TrendMetrics :
       Comparable(m) =>
         /\ RecentDays(Len(Daily.date)) \cap PreviousDays(Len(Daily.date)) = {}
         /\ (m \o "_trend") \in DOMAIN returned.combined_metrics.trends
         /\ WeekChange(m)[1] % WeekChange(m)[2] = 0
         /\ returned.combined_metrics.trends[m \o "_trend"].percentage
              = WeekChange(m)[1] \div WeekChange(m)[2]

\* C23 amended: the same, the figure being that percentage rounded to 1 decimal.
C23_WeekOverWeekRounded ==
  /\ OneRowPerDay
  /\ \A m \in TrendMetrics :
       Comparable(m) =>
         /\ RecentDays(Len(Daily.date)) \cap PreviousDays(Len(Daily.date)) = {}
         /\ (m \o "_trend") \in DOMAIN returned.combined_metrics.trends
         /\ returned.combined_metrics.trends[m \o "_trend"].percentage
              = RoundDiv(WeekChange(m)[1], WeekChange(m)[2])

\* C23 witness: more than 14 days, two sources with rows on the same day, and a spend
\* figure that is not a whole number of tenths before rounding
C23_Witness ==
  /\ HasDaily
  /\ Len(Daily.date) > 14
  /\ \E i, j \in 1..Len(returned.raw_data) :
       /\ i # j
       /\ AllDates(<<returned.raw_data[i]>>) \cap AllDates(<<returned.raw_data[j]>>) # {}
  /\ Comparable("spend")
  /\ WeekChange("spend")[1] % WeekChange("spend")[2] # 0
  /\ "spend_trend" \in DOMAIN returned.combined_metrics.trends

\* C24: a week-over-week figure of spend, revenue or conversions is absent exactly
\* when there are fewer than 8 distinct days or the metric has no column; with 8 or
\* more days it is present, and it is 0 when the previous-window mean is 0.
C24_TrendAbsentOnlyWithoutHistory ==
  Completed =>
    \A m \in TrendMetrics :
      LET trends == returned.combined_metrics.trends
          days == IF HasDaily THEN Len(Daily.date) ELSE 0
          column == HasDaily /\ m \in DOMAIN Daily.cols
      IN /\ ((m \o "_trend") \notin DOMAIN trends) <=> (days < 8 \/ ~column)
         /\ (days >= 8 /\ column /\ SumOver(Daily.cols[m], PreviousDays(days)) = 0)
              => /\ (m \o "_trend") \in DOMAIN trends
                 /\ trends[m \o "_trend"].percentage = 0

(* --------------------------- C25: the KPI cards ------------------------ *)

\* a call of get_kpi_metrics returns in this step
KpiCall == view' # view /\ view'.call = "get_kpi_metrics"

\* the last projection call was get_kpi_metrics, on a snapshot of real data
KpisShown == view # EmptyDict /\ view.call = "get_kpi_metrics" /\ ~IsDemo(view.data)

\* C25: get_kpi_metrics on a snapshot that contains combined_metrics returns the six
\* cards, each with value, trend, label and format, whose values are the overview
\* fields of that snapshot; the cards depend on the snapshot alone, and the call
\* changes neither the snapshot nor processed_cache nor chart_cache.
C25_KpiCardsArePureProjection ==
  [][ (KpiCall /\ ~NeedsDemo(Argument(view'.arg))) =>
        /\ view'.data = Argument(view'.arg)
        /\ DOMAIN kpis' = CardNames
        /\ \A k \in CardNames : DOMAIN kpis'[k] = {"value", "trend", "label", "format"}
        /\ ~IsDemo(view'.data) =>
             \A k \in CardNames :
               kpis'[k].value = view'.data.combined_metrics.overview[k]
        /\ kpis' = KpisOf(view'.data)
        /\ processed_cache' = processed_cache
        /\ returned' = returned
        /\ chart_cache' = chart_cache ]_vars

\* C25 witness: cards were made from a given snapshot of real data with revenue, while
\* charts were cached and the cache held an older snapshot
C25_Witness ==
  /\ KpisShown
  /\ view.arg = "given"
  /\ view.data = returned
  /\ kpis["total_revenue"].value > 0
  /\ chart_cache # EmptyDict
  /\ processed_cache # NoCache

(* ----------------------- C26: the totals agree ------------------------- *)

\* the sum over the channel entries of the channel's total of a field
ChannelsTotal(cm, field) ==
  LET RECURSIVE Add(_)
      Add(S) == IF S = {} THEN 0
                ELSE LET c == CHOOSE x \in S : TRUE
                     IN Get(cm.channels[c], "total_" \o field, 0) + Add(S \ {c})
  IN Add(DOMAIN cm.channels)

\* the sum over all days of the daily totals of a field
DaysTotal(cm, field) ==
  IF "daily_data" \in DOMAIN cm.trends /\ field \in DOMAIN cm.trends["daily_data"].cols
  THEN SumSeq(cm.trends["daily_data"].cols[field])
  ELSE 0

\* the final conversion of a total: round(x, 2) for money, int(x) for counts
Converted(field, x) == IF field \in {"spend", "revenue"} THEN Round2(x) ELSE IntOf(x)

\* C26: in every aggregation result each overview total is, before its rounding, the
\* sum over the channel entries of the channel's total of the field, and the sum over
\* all days of the daily totals of the field; the channel ids of channels are those of
\* channel_ranking, each exactly once.
C26_TotalsAgree ==
  Completed =>
    LET cm == returned.combined_metrics
        rk == RankingOf(cm)
    IN /\ \A f \in BaseFieldSet :
            /\ cm.overview["total_" \o f] = Converted(f, ChannelsTotal(cm, f))
            /\ cm.overview["total_" \o f] = Converted(f, DaysTotal(cm, f))
       /\ {rk[i]["channel"] : i \in 1..Len(rk)} = DOMAIN cm.channels
       /\ Len(rk) = Cardinality(DOMAIN cm.channels)

\* C26 witness: three sources, one with two rows on one day, one without a field the
\* others have, and a positive total of that field
C26_Witness ==
  /\ Completed
  /\ Len(returned.raw_data) = 3
  /\ \E i \in 1..3 :
       LET data == returned.raw_data[i].data
       IN data.n = 2 /\ GetCol(data, "date").vals[1] = GetCol(data, "date").vals[2]
  /\ \E i \in 1..3 : ~HasCol(returned.raw_data[i].data, "spend")
  /\ returned.combined_metrics.overview.total_spend > 0
  /\ Len(returned.combined_metrics.trends["daily_data"].date) > 1

(* ------------------------ C27: the failed pass ------------------------- *)

\* a pass ends in this step with an exception caught by the outer handler
PassFails == clock' # clock /\ errors'

\* a projection call without argument returns in this step
CallWithoutArgument == view' # view /\ view'.arg = "none"

\* C27: a pass whose aggregation raises returns a demo snapshot flagged is_demo and
\* leaves processed_cache as it was; a following get_kpi_metrics() or
\* create_performance_charts() without argument works on the cached snapshot, or on
\* new demo data if the cache is empty; no cached snapshot is flagged is_demo.
C27_FailedPassKeepsCache ==
  [][ /\ PassFails => (IsDemo(returned') /\ processed_cache' = processed_cache)
      /\ CallWithoutArgument =>
           IF processed_cache = NoCache THEN IsDemo(view'.data)
           ELSE view'.data = processed_cache
      /\ processed_cache' # NoCache => ~IsDemo(processed_cache') ]_vars

\* C27 witness: after a pass that failed, cards or charts were made without argument
\* from the snapshot an earlier pass had cached
C27_Witness ==
  /\ errors
  /\ IsDemo(returned)
  /\ processed_cache # NoCache
  /\ processed_cache.last_updated < clock
  /\ view # EmptyDict
  /\ view.arg = "none"
  /\ view.at = clock
  /\ view.data = processed_cache

(* ------------------ C28: a connector with nothing to give -------------- *)

\* the connector is connected and its fetch_data returns None or a table without rows
Silent(c) ==
  \/ connectors[c] = "none"
  \/ connectors[c] \in TableNames /\ IsEmpty(RawTable(connectors[c]))

\* C28: a connected connector whose fetch_data returns None or an empty table has no
\* entry in raw_data, channels or channel_ranking, adds nothing to any total, and
\* causes neither a warning nor the demo fall-back: the pass ends as it would with
\* that connector not connected.
C28_EmptyAnswerIsSilent ==
  Done =>
    \A c \in ConnectorNames :
      Silent(c) =>
        LET without == FetchAll([connectors EXCEPT ![c] = "off"], clock)
        IN /\ c \in fetched
           /\ c \notin warnings
           /\ IsDemo(returned) <=> CombineMetricsRaises(without.processed)
           /\ ~IsDemo(returned) =>
                /\ c \notin Sources(returned.raw_data)
                /\ c \notin DOMAIN returned.combined_metrics.channels
                /\ \A i \in 1..Len(RankingOf(returned.combined_metrics)) :
                     RankingOf(returned.combined_metrics)[i]["channel"] # c
                /\ returned.combined_metrics.overview = Overview(without.processed)

\* C28 witness: the csv connector answered None and another connector an empty table,
\* next to a source with spend; the pass completed without a warning
C28_Witness ==
  /\ Completed
  /\ connectors["csv"] = "none"
  /\ \E c \in ConnectorNames : connectors[c] = "E"
  /\ warnings = {}
  /\ Len(returned.raw_data) = 1
  /\ returned.combined_metrics.overview.total_spend > 0

(* ---------------------- C29: the trend of a card ----------------------- *)

\* C29: the overall_roas card's trend is round(revenue percentage - spend percentage,
\* 1) when revenue_trend and spend_trend both exist and the spend percentage is not
\* 0, and 0 in every other case; the revenue, spend and conversions cards show the
\* trend 0 when their trend entry is absent.
C29_RoasCardTrend ==
  KpisShown =>
    LET trends == view.data.combined_metrics.trends
        has(m) == (m \o "_trend") \in DOMAIN trends
        pct(m) == trends[m \o "_trend"].percentage
    IN /\ kpis["overall_roas"].trend
            = IF has("revenue") /\ has("spend") /\ pct("spend") # 0
              THEN pct("revenue") - pct("spend") ELSE 0
       /\ ~has("revenue") => kpis["total_revenue"].trend = 0
       /\ ~has("spend") => kpis["total_spend"].trend = 0
       /\ ~has("conversions") => kpis["total_conversions"].trend = 0

\* C29 witness: the spend trend is flat (0.0) and the revenue trend is not, and the
\* overall_roas card shows 0
C29_Witness ==
  /\ KpisShown
  /\ "spend_trend" \in DOMAIN view.data.combined_metrics.trends
  /\ "revenue_trend" \in DOMAIN view.data.combined_metrics.trends
  /\ view.data.combined_metrics.trends["spend_trend"].percentage = 0
  /\ view.data.combined_metrics.trends["revenue_trend"].percentage # 0
  /\ "conversions_trend" \notin DOMAIN view.data.combined_metrics.trends
  /\ kpis["overall_roas"].trend = 0

(* ----------------------- C30: the steps of the wizard ------------------ *)

\* what holds of every page of the wizard
WizardState ==
  LET step == session_state.current_step
      config == session_state.user_config
  IN /\ step \in 1..5
     /\ step >= 2 => ("company_name" \in DOMAIN config /\ config.company_name # "")
     /\ shown = "dashboard" <=> session_state.onboarding_complete

\* what holds of every interaction with the wizard
WizardStep ==
  LET step == session_state.current_step
      after == session_state'.current_step
  IN /\ after # step =>
          \/ pressed' = "Continuar" /\ after = step + 1
          \/ pressed' = "Atras" /\ after = step - 1
          \/ pressed' \in {"Reiniciar configuracion", "Reconfigurar Dashboard"} /\ after = 1
     /\ pressed' = "Continuar" => after = step + 1
     /\ pressed' = "Atras" => after = step - 1
     /\ pressed' \in {"Reiniciar configuracion", "Reconfigurar Dashboard"} => after = 1
     /\ (~session_state.onboarding_complete /\ session_state'.onboarding_complete) =>
          (pressed' = "Completar configuracion" /\ step = 5)

\* C30: over any sequence of button presses current_step stays within 1..5; one
\* interaction changes it by +1 (Continuar), by -1 (Atras) or sets it to 1 (Reiniciar
\* configuracion, Reconfigurar Dashboard); at a step from 2 on user_config holds a
\* non-empty company_name; onboarding_complete becomes true only by Completar
\* configuracion at step 5; the dashboard is shown exactly when onboarding_complete.
C30_WizardSteps == []WizardState /\ [][WizardStep]_vars

\* C30 witness: the wizard was gone through, completed, and the dashboard's
\* Reconfigurar Dashboard brought it back to step 1 with the configuration kept
C30_Witness ==
  /\ pressed = "Reconfigurar Dashboard"
  /\ shown = "onboarding"
  /\ session_state.current_step = 1
  /\ "theme" \in DOMAIN session_state.user_config
  /\ session_state.user_config.company_name = "Beta"
====
